---- MODULE Spec2Model ----
(***************************************************************************)
(* Model of the NMS discovery engine (nms_discovery.py) and of the web     *)
(* front end that drives it (nms_web.py).                                  *)
(*                                                                         *)
(* Text is a sequence of one-character strings, so that substring tests    *)
(* and lower-casing are computed.  A Python dict is a sequence of          *)
(* <<key, value>> pairs with pairwise distinct keys, in insertion order.   *)
(* An IPv4Address is its 32-bit integer; its str() form is the tuple of    *)
(* its four octets.                                                        *)
(***************************************************************************)
EXTENDS Integers, Sequences, FiniteSets, TLC

(***************************************************************************)
(* Bounds of the model.                                                    *)
(***************************************************************************)
\* the widest range explored has 2^MaxHostBits addresses
MaxHostBits == 2
\* number of discovery requests made to the web front end
MaxCalls == 2
\* number of standalone statistics polls
MaxPolls == 1
\* number of Devices in a saved registry
MaxDevices == 2

(***************************************************************************)
(* Python values.                                                          *)
(***************************************************************************)
\* None, as a text no real string equals
None == <<"None">>

\* Python truthiness of an optional text: None and "" are falsy
Truthy(v) == v # None /\ v # <<>>

\* a or b
OrElse(a, b) == IF Truthy(a) THEN a ELSE b

LowerChar(c) ==
    LET UpperChars == <<"A","B","C","D","E","F","G","H","I","J","K","L","M",
                        "N","O","P","Q","R","S","T","U","V","W","X","Y","Z">>
        LowerChars == <<"a","b","c","d","e","f","g","h","i","j","k","l","m",
                        "n","o","p","q","r","s","t","u","v","w","x","y","z">>
    IN  IF \E i \in 1..26 : UpperChars[i] = c
        THEN LowerChars[CHOOSE i \in 1..26 : UpperChars[i] = c]
        ELSE c

\* str.lower()
Lower(s) == [i \in 1..Len(s) |-> LowerChar(s[i])]

\* sub in s
Contains(sub, s) ==
    \E i \in 0..(Len(s) - Len(sub)) :
        \A j \in 1..Len(sub) : s[i + j] = sub[j]

\* a + b on texts
Cat(a, b) == a \o b

(***************************************************************************)
(* dict                                                                    *)
(***************************************************************************)
DictKeys(d) == {d[i][1] : i \in 1..Len(d)}

DictHas(d, k) == \E i \in 1..Len(d) : d[i][1] = k

DictGet(d, k) == d[CHOOSE i \in 1..Len(d) : d[i][1] = k][2]

\* d.get(k, default)
DictGetOr(d, k, default) == IF DictHas(d, k) THEN DictGet(d, k) ELSE default

\* d[k] = v : an existing key keeps its position, a new key goes last
DictSet(d, k, v) ==
    IF DictHas(d, k)
    THEN [i \in 1..Len(d) |-> IF d[i][1] = k THEN <<k, v>> ELSE d[i]]
    ELSE Append(d, <<k, v>>)

\* list(d.keys()), list(d.values())
DictKeySeq(d) == [i \in 1..Len(d) |-> d[i][1]]
DictValueSeq(d) == [i \in 1..Len(d) |-> d[i][2]]

\* the keys of a well-formed dict are pairwise distinct
DictWellFormed(d) == \A i, j \in 1..Len(d) : d[i][1] = d[j][1] => i = j

RECURSIVE DictUpdateKeepOld(_, _)
\* a merge that keeps the record already stored for a known address
DictUpdateKeepOld(d, e) ==
    IF e = <<>> THEN d
    ELSE DictUpdateKeepOld(
             IF DictHas(d, Head(e)[1]) THEN d ELSE Append(d, Head(e)),
             Tail(e))

\* a merge that appends without looking for the key
DictUpdateAppend(d, e) == d \o e

\* an assignment in place of a merge
DictUpdateReplace(d, e) == e

RECURSIVE DictUpdate(_, _)
\* d.update(e)
DictUpdate(d, e) ==
    IF e = <<>> THEN d
    ELSE DictUpdate(DictSet(d, Head(e)[1], Head(e)[2]), Tail(e))

(***************************************************************************)
(* Values of an SNMP walk: int(value) when it parses, the text otherwise.  *)
(***************************************************************************)
IntVal(n) == [tag |-> "int", n |-> n, s |-> <<>>]
TextVal(t) == [tag |-> "text", n |-> 0, s |-> t]

Digits == <<"0","1","2","3","4","5","6","7","8","9">>

IsDigit(c) == \E i \in 1..10 : Digits[i] = c

DigitValue(c) == (CHOOSE i \in 1..10 : Digits[i] = c) - 1

RECURSIVE ParseDigits(_)
ParseDigits(t) ==
    IF t = <<>> THEN 0
    ELSE 10 * ParseDigits(SubSeq(t, 1, Len(t) - 1)) + DigitValue(t[Len(t)])

\* int(text) raises no ValueError
IsNumeric(t) == t # <<>> /\ \A i \in 1..Len(t) : IsDigit(t[i])

RECURSIVE NatToText(_)
NatToText(n) ==
    IF n < 10 THEN << Digits[n + 1] >>
    ELSE NatToText(n \div 10) \o << Digits[(n % 10) + 1] >>

\* str(value)
StrOf(v) == IF v.tag = "text" THEN v.s ELSE NatToText(v.n)

\* index of the first occurrence of c in t, Len(t) + 1 when there is none
FirstIndex(c, t) ==
    IF \E i \in 1..Len(t) : t[i] = c
    THEN CHOOSE i \in 1..Len(t) : t[i] = c /\ \A j \in 1..(i - 1) : t[j] # c
    ELSE Len(t) + 1

\* status.split('(')[1].split(')')[0]
ParenPart(t) ==
    LET after == SubSeq(t, FirstIndex("(", t) + 1, Len(t))
        piece == SubSeq(after, 1, FirstIndex("(", after) - 1)
    IN  SubSeq(piece, 1, FirstIndex(")", piece) - 1)

(***************************************************************************)
(* Addresses and ranges (ipaddress.IPv4Network, IPv4Address).              *)
(***************************************************************************)
RECURSIVE Split(_, _)
\* t.split(c)
Split(t, c) ==
    IF FirstIndex(c, t) > Len(t) THEN << t >>
    ELSE << SubSeq(t, 1, FirstIndex(c, t) - 1) >>
         \o Split(SubSeq(t, FirstIndex(c, t) + 1, Len(t)), c)

\* one octet of a dotted address: decimal digits, at most three, no leading
\* zero, at most 255
OctetValid(o) ==
    /\ IsNumeric(o)
    /\ Len(o) <= 3
    /\ Len(o) > 1 => o[1] # "0"
    /\ ParseDigits(o) <= 255

AddressValid(t) ==
    LET o == Split(t, ".")
    IN  Len(o) = 4 /\ \A i \in 1..Len(o) : OctetValid(o[i])

\* IPv4Address(text) as its 32-bit integer
ToInt(t) ==
    LET o == Split(t, ".")
    IN  ParseDigits(o[1]) * 16777216 + ParseDigits(o[2]) * 65536
        + ParseDigits(o[3]) * 256 + ParseDigits(o[4])

\* str(IPv4Address)
ToStr(n) ==
    NatToText(n \div 16777216) \o <<".">> \o NatToText((n \div 65536) % 256)
    \o <<".">> \o NatToText((n \div 256) % 256) \o <<".">> \o NatToText(n % 256)

RECURSIVE Pow2(_)
Pow2(n) == IF n = 0 THEN 1 ELSE 2 * Pow2(n - 1)

\* a parser that does not check the value of the octets
NetworkValidLax(r) ==
    LET p == Split(r, "/")
    IN  /\ Len(p) \in {1, 2}
        /\ Len(Split(p[1], ".")) = 4
        /\ \A i \in 1..4 : IsNumeric(Split(p[1], ".")[i])
        /\ Len(p) = 2 =>
              /\ IsNumeric(p[2])
              /\ Len(p[2]) <= 2
              /\ ParseDigits(p[2]) <= 32

\* IPv4Network(network_range, strict=False) raises no ValueError: an address,
\* alone or followed by one "/" and a prefix length (the netmask notation
\* of the prefix is not among the inputs explored)
NetworkValid(r) ==
    LET p == Split(r, "/")
    IN  /\ Len(p) \in {1, 2}
        /\ AddressValid(p[1])
        /\ Len(p) = 2 =>
              /\ IsNumeric(p[2])
              /\ Len(p[2]) <= 2
              /\ ParseDigits(p[2]) <= 32

NetworkPrefix(r) ==
    LET p == Split(r, "/")
    IN  IF Len(p) = 1 THEN 32 ELSE ParseDigits(p[2])

\* strict=False masks the host bits of the address
NetworkAddress(r) ==
    LET n == ToInt(Split(r, "/")[1])
    IN  n - (n % Pow2(32 - NetworkPrefix(r)))

BroadcastAddress(r) == NetworkAddress(r) + Pow2(32 - NetworkPrefix(r)) - 1

\* iterating the network itself instead of network.hosts()
HostsWholeNetwork(r) ==
    [i \in 1..Pow2(32 - NetworkPrefix(r)) |-> NetworkAddress(r) + i - 1]

\* network.hosts(), in iteration order
Hosts(r) ==
    IF NetworkPrefix(r) = 32 THEN << NetworkAddress(r) >>
    ELSE IF NetworkPrefix(r) = 31 THEN << NetworkAddress(r), NetworkAddress(r) + 1 >>
    ELSE [i \in 1..(Pow2(32 - NetworkPrefix(r)) - 2) |-> NetworkAddress(r) + i]

Localhost == <<"1","2","7",".","0",".","0",".","1">>
LocalhostRange == <<"1","2","7",".","0",".","0",".","1","/","3","2">>

T_up == <<"u","p">>
T_down == <<"d","o","w","n">>
T_unknown == <<"u","n","k","n","o","w","n">>
T_Unknown == <<"U","n","k","n","o","w","n">>

\* status_map.get(n, 'unknown')
StatusMap(n) ==
    IF n = 1 THEN T_up ELSE IF n = 2 THEN T_down
    ELSE IF n = 3 THEN <<"t","e","s","t","i","n","g">> ELSE T_unknown

\* SimpleSnmpMonitor.get_status_text
GetStatusText(v) ==
    IF v.tag = "int" THEN StatusMap(v.n)
    ELSE IF Contains(<<"(">>, v.s)
         THEN IF IsNumeric(ParenPart(v.s))
              THEN StatusMap(ParseDigits(ParenPart(v.s)))
              ELSE Lower(v.s)
         ELSE IF Lower(v.s) \in {T_up, T_down, <<"t","e","s","t","i","n","g">>} THEN Lower(v.s)
              ELSE IF IsNumeric(v.s) THEN StatusMap(ParseDigits(v.s))
                   ELSE T_unknown

\* SimpleSnmpMonitor.get_interfaces, from the four walked tables
GetInterfaces(a) ==
    [i \in 1..Len(a.descriptions) |->
        LET index == a.descriptions[i][1]
        IN  << index,
               [ index |-> index,
                 name |-> StrOf(a.descriptions[i][2]),
                 speed |-> DictGetOr(a.speeds, index, IntVal(0)),
                 admin_status_text |->
                     GetStatusText(DictGetOr(a.admin_status, index, IntVal(0))),
                 oper_status_text |->
                     GetStatusText(DictGetOr(a.oper_status, index, IntVal(0))) ] >>]

\* SimpleSnmpMonitor.get_interface_stats, from the four walked counter tables
GetInterfaceStats(a) ==
    [i \in 1..Len(a.in_octets) |->
        LET index == a.in_octets[i][1]
        IN  << index,
               [ in_octets |-> DictGetOr(a.in_octets, index, IntVal(0)),
                 out_octets |-> DictGetOr(a.out_octets, index, IntVal(0)),
                 in_packets |-> DictGetOr(a.in_packets, index, IntVal(0)),
                 out_packets |-> DictGetOr(a.out_packets, index, IntVal(0)) ] >>]

ZeroStats ==
    [ in_octets |-> IntVal(0), out_octets |-> IntVal(0),
      in_packets |-> IntVal(0), out_packets |-> IntVal(0) ]

\* the interface records built by snmp_probe and by get_device_stats
CombineInterfaces(a) ==
    LET interfaces == GetInterfaces(a)
        stats == GetInterfaceStats(a)
    IN  [i \in 1..Len(interfaces) |->
            LET index == interfaces[i][1]
                interface == interfaces[i][2]
                interface_stats == DictGetOr(stats, index, ZeroStats)
            IN  << index,
                   [ name |-> interface.name,
                     admin_status |-> interface.admin_status_text,
                     oper_status |-> interface.oper_status_text,
                     speed |-> interface.speed,
                     in_octets |-> interface_stats.in_octets,
                     out_octets |-> interface_stats.out_octets,
                     in_packets |-> interface_stats.in_packets,
                     out_packets |-> interface_stats.out_packets ] >>]

(***************************************************************************)
(* DeviceDiscovery.identify_device_type                                    *)
(***************************************************************************)
K_switch ==
    { <<"s","w","i","t","c","h">>,
      <<"c","a","t","a","l","y","s","t">>,
      <<"n","e","x","u","s">> }

K_router ==
    { <<"r","o","u","t","e","r">>,
      <<"a","s","r">>,
      <<"i","s","r">> }

K_host ==
    { <<"l","i","n","u","x">>,
      <<"u","b","u","n","t","u">>,
      <<"c","e","n","t","o","s">>,
      <<"h","o","s","t">> }

K_virtual_switch ==
    { <<"m","i","n","i","n","e","t">>,
      <<"o","p","e","n","v","s","w","i","t","c","h">>,
      <<"o","v","s">> }

K_firewall ==
    { <<"f","i","r","e","w","a","l","l">>,
      <<"a","s","a">>,
      <<"p","i","x">> }

K_access_point ==
    { <<"a","c","c","e","s","s"," ","p","o","i","n","t">>,
      <<"a","p">>,
      <<"w","i","r","e","l","e","s","s">> }

AnyKeyword(keywords, desc_lower) == \E keyword \in keywords : Contains(keyword, desc_lower)

\* a classifier that tests the host keywords before the switch keywords
IdentifyDeviceTypeHostFirst(system_desc) ==
    IF ~Truthy(system_desc) THEN "unknown"
    ELSE LET desc_lower == Lower(system_desc)
         IN  IF AnyKeyword(K_host, desc_lower) THEN "host"
             ELSE IF AnyKeyword(K_switch, desc_lower) THEN "switch"
             ELSE IF AnyKeyword(K_router, desc_lower) THEN "router"
             ELSE "unknown"

IdentifyDeviceType(system_desc) ==
    IF ~Truthy(system_desc) THEN "unknown"
    ELSE LET desc_lower == Lower(system_desc)
         IN  IF AnyKeyword(K_switch, desc_lower) THEN "switch"
             ELSE IF AnyKeyword(K_router, desc_lower) THEN "router"
             ELSE IF AnyKeyword(K_host, desc_lower) THEN "host"
             ELSE IF AnyKeyword(K_virtual_switch, desc_lower) THEN "virtual_switch"
             ELSE IF AnyKeyword(K_firewall, desc_lower) THEN "firewall"
             ELSE IF AnyKeyword(K_access_point, desc_lower) THEN "access_point"
             ELSE "unknown"

(***************************************************************************)
(* The SNMP agents of the network: what an agent answers to the gets and   *)
(* walks of one probe.  A get is None when the command fails, times out    *)
(* or its output does not parse; a walk is then the empty dict.            *)
(***************************************************************************)

\* f'Device-{ip}'
DeviceName(ip) == <<"D","e","v","i","c","e","-">> \o ToStr(ip)

Silent ==
    [ sysDescr |-> None, sysName |-> None, sysUpTime |-> None,
      sysContact |-> None, sysLocation |-> None,
      descriptions |-> <<>>, speeds |-> <<>>, admin_status |-> <<>>,
      oper_status |-> <<>>, in_octets |-> <<>>, out_octets |-> <<>>,
      in_packets |-> <<>>, out_packets |-> <<>>, raises |-> FALSE ]

\* a Linux host: every get answers, one loopback and one ethernet interface
LinuxHost ==
    [ Silent EXCEPT
      !.sysDescr = <<"L","i","n","u","x"," ","5",".","x">>,
      !.sysName = <<"u","b","u","n","t","u">>,
      !.sysUpTime = <<"(","1","2","3","4","5",")"," ","0",":","0","2",":","0","3",".","4","5">>,
      !.sysContact = <<"a","d","m","i","n">>,
      !.sysLocation = <<"l","a","b">>,
      !.descriptions = << <<"1", TextVal(<<"l","o">>)>>, <<"2", TextVal(<<"e","t","h","0">>)>> >>,
      !.speeds = << <<"1", IntVal(10)>>, <<"2", IntVal(1000)>> >>,
      !.admin_status = << <<"1", IntVal(1)>>, <<"2", TextVal(<<"u","p","(","1",")">>)>> >>,
      !.oper_status = << <<"1", IntVal(1)>>, <<"2", TextVal(<<"u","p","(","1",")">>)>> >>,
      !.in_octets = << <<"1", IntVal(0)>>, <<"2", IntVal(1000)>> >>,
      !.out_octets = << <<"1", IntVal(0)>>, <<"2", IntVal(500)>> >>,
      !.in_packets = << <<"1", IntVal(0)>>, <<"2", IntVal(10)>> >>,
      !.out_packets = << <<"1", IntVal(0)>>, <<"2", IntVal(5)>> >> ]

\* an Open vSwitch box: only the description answers, the counter walks
\* cover one of its two ports
OvsSwitch ==
    [ Silent EXCEPT
      !.sysDescr = <<"O","p","e","n"," ","v","S","w","i","t","c","h">>,
      !.descriptions = << <<"1", TextVal(<<"s","1","-","e","t","h","1">>)>>, <<"2", TextVal(<<"s","1","-","e","t","h","2">>)>> >>,
      !.oper_status = << <<"1", IntVal(1)>>, <<"2", IntVal(2)>> >>,
      !.in_octets = << <<"1", IntVal(7)>> >> ]

\* an agent whose description answers and whose interface retrieval raises
Broken ==
    [ Silent EXCEPT
      !.sysDescr = <<"C","i","s","c","o"," ","A","S","A">>,
      !.raises = TRUE ]

\* a Mininet switch with three busy ports
Mininet3 ==
    [ Silent EXCEPT
      !.sysDescr = <<"O","p","e","n"," ","v","S","w","i","t","c","h">>,
      !.descriptions = << <<"1", TextVal(<<"s","1","-","e","t","h","1">>)>>, <<"2", TextVal(<<"s","1","-","e","t","h","2">>)>>, <<"3", TextVal(<<"s","1","-","e","t","h","3">>)>> >>,
      !.oper_status = << <<"1", IntVal(1)>>, <<"2", IntVal(1)>>, <<"3", IntVal(1)>> >>,
      !.in_octets = << <<"1", IntVal(7)>>, <<"2", IntVal(8)>>, <<"3", IntVal(9)>> >> ]

\* the ports of two Mininet switches seen on one system
Mininet2Sw ==
    [ Silent EXCEPT
      !.sysDescr = <<"O","p","e","n"," ","v","S","w","i","t","c","h">>,
      !.descriptions = << <<"1", TextVal(<<"s","1","-","e","t","h","1">>)>>, <<"2", TextVal(<<"s","2","-","e","t","h","1">>)>> >>,
      !.oper_status = << <<"1", IntVal(1)>>, <<"2", IntVal(2)>> >> ]

Agents == { Silent, LinuxHost, OvsSwitch, Broken }

\* the agents met on the scanned network, and on the local system
RangeAgents == { Silent, LinuxHost, OvsSwitch }
LocalAgents == { Silent, OvsSwitch, Broken }

\* the agents that answer the description query
Answering == { a \in Agents : Truthy(a.sysDescr) }

DefaultCommunity == "public"

Communities == { DefaultCommunity, "private" }

(***************************************************************************)
(* DeviceDiscovery.snmp_probe: the Device built from the answers of agent  *)
(* a, <<>> for None.  crash stands for an exception raised inside the      *)
(* probe, which the outer handler turns into None.                         *)
(***************************************************************************)
\* a probe that gives up when the name query or the interface retrieval
\* fails
SnmpProbeAllOrNothing(ip, comm, a, crash, t) ==
    IF crash \/ ~Truthy(a.sysDescr) \/ ~Truthy(a.sysName) \/ a.raises THEN <<>>
    ELSE << [ ip |-> ToStr(ip),
              system_name |-> a.sysName,
              system_description |-> a.sysDescr,
              device_type |-> IdentifyDeviceType(a.sysDescr),
              interfaces |-> CombineInterfaces(a) ] >>

SnmpProbe(ip, comm, a, crash, t) ==
    IF crash \/ ~Truthy(a.sysDescr) THEN <<>>
    ELSE << [ ip |-> ToStr(ip),
              system_name |-> OrElse(a.sysName, DeviceName(ip)),
              system_description |-> a.sysDescr,
              system_uptime |-> a.sysUpTime,
              system_contact |-> OrElse(a.sysContact, T_Unknown),
              system_location |-> OrElse(a.sysLocation, T_Unknown),
              discovered_at |-> t,
              device_type |-> IdentifyDeviceType(a.sysDescr),
              snmp_community |-> comm,
              interfaces |-> IF a.raises THEN <<>> ELSE CombineInterfaces(a),
              neighbors |-> <<>> ] >>

\* DeviceDiscovery.ping_host: True only when ping exits with status 0
PingHost(outcome) == outcome = "exit0"

PingOutcomes == { "exit0", "exit1", "timeout", "error" }

(***************************************************************************)
(* DeviceDiscovery.build_topology and its helpers.                         *)
(***************************************************************************)
T_s1 == <<"s","1">>
T_s1eth == <<"s","1","-","e","t","h">>
T_eth == <<"e","t","h">>
T_h == <<"h">>
T_MininetSwitch == <<"M","i","n","i","n","e","t"," ","S","w","i","t","c","h">>

TopoNode(ip, device) ==
    [ id |-> ip,
      label |-> device.system_name,
      type |-> device.device_type,
      ip |-> ip,
      interfaces |-> Len(device.interfaces),
      status |-> IF device.interfaces # <<>> THEN "up" ELSE "unknown",
      uptime |-> device.system_uptime,
      description |-> device.system_description,
      location |-> device.system_location ]

IsMininetPort(iface) ==
    \/ Contains(T_s1eth, iface.name)
    \/ Contains(<<"s","2","-","e","t","h">>, iface.name)
    \/ Contains(<<"s","3","-","e","t","h">>, iface.name)

\* the expansion of the local system whatever else the registry holds
MininetInterfacesAnySize(reg) ==
    IF DictHas(reg, Localhost)
    THEN SelectSeq(DictValueSeq(DictGet(reg, Localhost).interfaces), IsMininetPort)
    ELSE <<>>

\* mininet_interfaces of build_topology
MininetInterfaces(reg) ==
    IF Len(reg) = 1 /\ DictHas(reg, Localhost)
    THEN SelectSeq(DictValueSeq(DictGet(reg, Localhost).interfaces), IsMininetPort)
    ELSE <<>>

SwitchNode(reg) ==
    [ id |-> T_s1, label |-> T_s1, type |-> "switch", ip |-> Localhost,
      interfaces |-> Len(MininetInterfaces(reg)), status |-> "up",
      uptime |-> DictGet(reg, Localhost).system_uptime,
      description |-> T_MininetSwitch, location |-> <<"V","i","r","t","u","a","l">> ]

HostNode(i, iface) ==
    [ id |-> T_h \o NatToText(i), label |-> T_h \o NatToText(i), type |-> "host",
      ip |-> <<"1","0",".","0",".","0",".">> \o NatToText(i), interfaces |-> 1,
      status |-> IF iface.oper_status = T_up THEN "up" ELSE "down",
      uptime |-> T_Unknown,
      description |-> <<"M","i","n","i","n","e","t"," ","H","o","s","t"," ">> \o NatToText(i), location |-> <<"V","i","r","t","u","a","l">> ]

\* a link; a key the code leaves out of the dict is None here
TopoLink(source, target, type, bandwidth, interface, status) ==
    [ source |-> source, target |-> target, type |-> type,
      bandwidth |-> bandwidth, interface |-> interface, status |-> status ]

IsSwitchDevice(kv) == kv[2].device_type \in {"switch", "virtual_switch"}
IsHostDevice(kv) == kv[2].device_type = "host"

\* the counters of the agents are integers
IsActiveEth(iface) ==
    /\ iface.oper_status = T_up
    /\ iface.in_octets.tag = "int" /\ iface.in_octets.n > 0
    /\ Contains(T_eth, iface.name)

\* a test of the first device only
HaveInterconnectOneSided(dev1, dev2) ==
    Len(SelectSeq(DictValueSeq(dev1.interfaces), IsActiveEth)) > 1

\* DeviceDiscovery.have_interconnect
HaveInterconnect(dev1, dev2) ==
    /\ Len(SelectSeq(DictValueSeq(dev1.interfaces), IsActiveEth)) > 1
    /\ Len(SelectSeq(DictValueSeq(dev2.interfaces), IsActiveEth)) > 1

\* parts[:3]
FirstThree(parts) == SubSeq(parts, 1, IF Len(parts) < 3 THEN Len(parts) ELSE 3)

\* DeviceDiscovery.same_subnet
SameSubnet(ip1, ip2) == FirstThree(Split(ip1, ".")) = FirstThree(Split(ip2, "."))

RECURSIVE SwitchLinks(_, _, _)
\* the switch_link entries, for i, j in the order of the two nested loops
SwitchLinks(sw, i, j) ==
    IF i > Len(sw) THEN <<>>
    ELSE IF j > Len(sw) THEN SwitchLinks(sw, i + 1, 1)
    ELSE (IF i < j /\ HaveInterconnect(sw[i][2], sw[j][2])
          THEN << TopoLink(sw[i][1], sw[j][1], "switch_link", "100Mbps", None, None) >>
          ELSE <<>>)
         \o SwitchLinks(sw, i, j + 1)

\* a loop without the break: a link to every switch of the subnet
HostLinkEvery(host_ip, sw) ==
    LET targets == SelectSeq(sw, LAMBDA kv : SameSubnet(host_ip, kv[1]))
    IN  [k \in 1..Len(targets) |->
            TopoLink(host_ip, targets[k][1], "host_link", "10Mbps", None, None)]

\* the host_link of one host: the first switch of its subnet, if any
HostLink(host_ip, sw) ==
    IF \E k \in 1..Len(sw) : SameSubnet(host_ip, sw[k][1])
    THEN LET k == CHOOSE k \in 1..Len(sw) :
                     /\ SameSubnet(host_ip, sw[k][1])
                     /\ \A m \in 1..(k - 1) : ~SameSubnet(host_ip, sw[m][1])
         IN  << TopoLink(host_ip, sw[k][1], "host_link", "10Mbps", None, None) >>
    ELSE <<>>

RECURSIVE HostLinks(_, _)
HostLinks(hosts, sw) ==
    IF hosts = <<>> THEN <<>>
    ELSE HostLink(Head(hosts)[1], sw) \o HostLinks(Tail(hosts), sw)

\* DeviceDiscovery.detect_links: what it appends to links
DetectLinks(reg) ==
    LET switch_devices == SelectSeq(reg, IsSwitchDevice)
        host_devices == SelectSeq(reg, IsHostDevice)
    IN  SwitchLinks(switch_devices, 1, 1) \o HostLinks(host_devices, switch_devices)

\* a filter on the address of the node instead of its id
IsNotLocalhostAddress(n) == n.ip # Localhost

\* no filter: the node of the original device stays
KeepEveryNode(n) == TRUE

IsNotLocalhostNode(n) == n.id # Localhost

\* DeviceDiscovery.build_topology: the value stored in self.topology
BuildTopology(reg) ==
    LET base == [i \in 1..Len(reg) |-> TopoNode(reg[i][1], reg[i][2])]
        mininet_interfaces == MininetInterfaces(reg)
    IN  IF mininet_interfaces # <<>>
        THEN [ nodes |->
                 SelectSeq(
                     base \o << SwitchNode(reg) >>
                          \o [i \in 1..Len(mininet_interfaces) |->
                                 HostNode(i, mininet_interfaces[i])],
                     IsNotLocalhostNode),
               links |->
                 [i \in 1..Len(mininet_interfaces) |->
                     TopoLink(T_h \o NatToText(i), T_s1, "host_link", "100Mbps",
                              mininet_interfaces[i].name,
                              mininet_interfaces[i].oper_status)] ]
        ELSE [ nodes |-> base, links |-> DetectLinks(reg) ]

EmptyTopology == [ nodes |-> <<>>, links |-> <<>> ]

(***************************************************************************)
(* DeviceDiscovery.get_device_stats: the value returned, <<>> for None.    *)
(* The uptime is kept in ticks (the code divides them by 100).             *)
(***************************************************************************)

\* ip.startswith('h') and ip[1:].isdigit()
IsVirtualHostId(ip) ==
    /\ Len(ip) >= 2
    /\ ip[1] = "h"
    /\ \A i \in 2..Len(ip) : IsDigit(ip[i])

\* DeviceDiscovery._get_virtual_host_stats
VirtualHostStats(host_id, t) ==
    [ system_info |-> [ hostname |-> host_id, uptime_formatted |-> <<"1","h"," ","2","3","m">>,
                        interface_count |-> 1 ],
      interfaces |->
          << << "1", [ name |-> host_id \o <<"-","e","t","h","0">>,
                       admin_status |-> T_up, oper_status |-> T_up,
                       speed |-> IntVal(100000000),
                       in_octets |-> IntVal(1024000), out_octets |-> IntVal(512000),
                       in_packets |-> IntVal(1500), out_packets |-> IntVal(1200) ] >> >>,
      timestamp |-> t ]

IsS1Port(kv) == Contains(T_s1eth, kv[2].name)

\* DeviceDiscovery._get_virtual_switch_stats
VirtualSwitchStats(a, t) ==
    IF a.raises THEN VirtualHostStats(T_s1, t)
    ELSE [ system_info |-> [ hostname |-> T_s1, uptime_formatted |-> <<"1","h"," ","2","3","m">>,
                             interface_count |->
                                 Len(SelectSeq(CombineInterfaces(a), IsS1Port)) ],
           interfaces |-> SelectSeq(CombineInterfaces(a), IsS1Port),
           timestamp |-> t ]

\* SimpleSnmpMonitor.get_system_info (the interface count is not queried by
\* the agents of this model and reads 0)
GetSystemInfo(a) ==
    [ system_name |-> OrElse(a.sysName, T_Unknown),
      system_description |-> OrElse(a.sysDescr, T_Unknown),
      uptime_ticks |->
          IF Truthy(a.sysUpTime) /\ Contains(<<"(">>, a.sysUpTime)
             /\ IsNumeric(ParenPart(a.sysUpTime))
          THEN ParseDigits(ParenPart(a.sysUpTime)) ELSE 0,
      interface_count |-> 0 ]

GetDeviceStats(ip, reg, a, t) ==
    IF IsVirtualHostId(ip) THEN << VirtualHostStats(ip, t) >>
    ELSE IF ip = T_s1 THEN << VirtualSwitchStats(a, t) >>
    ELSE IF ~DictHas(reg, ip) THEN <<>>
    ELSE IF a.raises THEN <<>>
    ELSE << [ system_info |-> GetSystemInfo(a),
              interfaces |-> CombineInterfaces(a),
              timestamp |-> t ] >>

(***************************************************************************)
(* Inputs of the requests.                                                 *)
(***************************************************************************)
T_base == <<"1","0",".","0",".","0",".","5">>

\* three malformed ranges: an octet above 255, a prefix above 32, no address
MalformedInputs == { <<"1","0",".","0",".","0",".","2","5","6","/","3","0">>, <<"1","0",".","0",".","0",".","5","/","3","3">>, <<"l","a","b","-","n","e","t">> }

\* the ranges "10.0.0.5/p" whose host part has at most MaxHostBits bits, the
\* bare address, the local system, and the malformed ranges
RangeInputs ==
    { T_base \o <<"/">> \o NatToText(p) : p \in (32 - MaxHostBits)..32 }
    \cup { T_base, LocalhostRange } \cup MalformedInputs

\* max_workers of discover_network_range: the default and a limit of one
DefaultMaxWorkers == 20
WorkerInputs == { 1, DefaultMaxWorkers }

\* the cap of the second pool
SnmpPoolCap == 10

StatsInputs == { T_base, Localhost, <<"h","1">>, T_s1, <<"1","0",".","9",".","9",".","9">> }

(***************************************************************************)
(* State.                                                                  *)
(***************************************************************************)
VARIABLES
    discovered_devices, \* DeviceDiscovery.discovered_devices: address -> Device
    topology,           \* DeviceDiscovery.topology
    community,          \* DeviceDiscovery.community
    pc,                 \* position of the discovery request
    network_range,      \* network_range of the api_discover request in progress
    max_workers,        \* its concurrency limit
    ping_queue,         \* submitted ping_host calls no worker has taken yet
    ping_running,       \* ping_host calls in flight
    ping_done,          \* completed ping futures: <<address, result>>
    ping_seen,          \* futures the as_completed loop has handled
    ping_results,       \* dict of the reachable addresses
    snmp_workers,       \* size of the second pool
    snmp_queue,         \* submitted snmp_probe calls no worker has taken yet
    snmp_running,       \* snmp_probe calls in flight
    snmp_done,          \* completed probe futures: <<address, device or <<>> >>
    snmp_seen,          \* futures the as_completed loop has handled
    discovered,         \* dict of the devices found by this call
    outcome,            \* what the caller of the discovery got back
    stats_response,     \* what the last statistics poll returned
    now,                \* clock read by datetime.now()
    calls,              \* discovery requests made so far
    polls,              \* statistics polls made so far
    ping_log,           \* every ping_host call started by the running call
    snmp_log,           \* every snmp_probe call started by the running call
    call,               \* the last direct call of a method: name, arguments, result
    merge_base,         \* the registry as the merge in progress found it
    merge_todo,         \* entries of discovered the merge has not stored yet
    observed,           \* what a reader of the registry last got: <<key, Device>>
    supplied,           \* community of the api_discover request in progress
    historical_data,    \* the dashboards' historical_data
    monitoring_active,  \* NMSWebInterface.monitoring_active
    loops,              \* the threads running _monitoring_loop
    last_stats          \* NMSWebInterface.last_stats

vars ==
    << discovered_devices, topology, community, pc, network_range, max_workers,
       ping_queue, ping_running, ping_done, ping_seen, ping_results,
       snmp_workers, snmp_queue, snmp_running, snmp_done, snmp_seen, discovered,
       outcome, stats_response, now, calls, polls, ping_log, snmp_log,
       call, merge_base, merge_todo, observed, supplied, historical_data,
       monitoring_active, loops, last_stats >>

\* the state of the dashboards and of the background monitoring
monvars == << historical_data, monitoring_active, loops, last_stats >>

\* what the discovery requests and the statistics polls leave alone
callvars ==
    << call, merge_base, merge_todo, observed, historical_data,
       monitoring_active, loops, last_stats >>

registry == << discovered_devices, topology >>

pools ==
    << ping_queue, ping_running, ping_done, ping_seen, ping_results,
       snmp_workers, snmp_queue, snmp_running, snmp_done, snmp_seen, discovered,
       ping_log, snmp_log >>

\* the value a call returns, and whether it raised into its caller
Returned(value) == [ raised |-> FALSE, value |-> value ]

NoOutcome == [ raised |-> FALSE, value |-> None ]

\* no method has been called directly
NoCall == [ op |-> "none" ]

\* at most MaxLoops threads are ever started
MaxLoops == 2

\* no thread runs _monitoring_loop.  A thread is: where it is, the length and
\* the position of its iterator over the keys, the keys its cycle began
\* with and the addresses it has polled in the cycle
NoLoops ==
    [ t \in 1..MaxLoops |->
        [ pc |-> "none", size |-> 0, pos |-> 0, keys |-> <<>>, polled |-> {} ] ]

Init ==
    /\ discovered_devices = <<>>
    /\ topology = EmptyTopology
    /\ community = DefaultCommunity
    /\ pc = "idle"
    /\ network_range = <<>>
    /\ max_workers = DefaultMaxWorkers
    /\ ping_queue = <<>> /\ ping_running = {} /\ ping_done = {}
    /\ ping_seen = {} /\ ping_results = <<>>
    /\ snmp_workers = 0
    /\ snmp_queue = <<>> /\ snmp_running = {} /\ snmp_done = {}
    /\ snmp_seen = {} /\ discovered = <<>>
    /\ outcome = NoOutcome
    /\ stats_response = <<>>
    /\ now = 0 /\ calls = 0 /\ polls = 0
    /\ ping_log = <<>> /\ snmp_log = <<>>
    /\ call = NoCall
    /\ merge_base = <<>> /\ merge_todo = <<>> /\ observed = <<>>
    /\ supplied = DefaultCommunity
    /\ historical_data = <<>>
    /\ monitoring_active = FALSE
    /\ loops = NoLoops
    /\ last_stats = <<>>

(***************************************************************************)
(* api_discover (nms_web.py) and DeviceDiscovery.discover_network_range.   *)
(* The submit loop of a pool is one step of the calling thread; the        *)
(* workers take the submitted calls in submission order.                   *)
(***************************************************************************)
SeqToSet(q) == { q[i] : i \in 1..Len(q) }

Min(a, b) == IF a < b THEN a ELSE b

ResetPools ==
    /\ ping_running' = {} /\ ping_done' = {} /\ ping_seen' = {}
    /\ ping_results' = <<>> /\ ping_log' = <<>>
    /\ snmp_workers' = 0 /\ snmp_queue' = <<>> /\ snmp_running' = {}
    /\ snmp_done' = {} /\ snmp_seen' = {} /\ discovered' = <<>>
    /\ snmp_log' = <<>>

\* the locals of discover_network_range, gone when it returns
DropLocals ==
    /\ max_workers' = DefaultMaxWorkers
    /\ ping_queue' = <<>>
    /\ ResetPools

\* api_discover on a range that parses: phase 1 submits one ping per host
DiscoverRange(r, w, c) ==
    /\ pc = "idle" /\ calls < MaxCalls
    /\ r # LocalhostRange
    /\ NetworkValid(r)
    /\ community' = c
    /\ supplied' = c
    /\ network_range' = r
    /\ max_workers' = w
    /\ ping_queue' = Hosts(r)
    /\ ResetPools
    /\ pc' = "phase1"
    /\ now' = now + 1 /\ calls' = calls + 1
    /\ UNCHANGED callvars
    /\ UNCHANGED << discovered_devices, topology, outcome, stats_response, polls >>

\* api_discover on a malformed range: ValueError is caught, {} is returned
DiscoverInvalid(r, w, c) ==
    /\ pc = "idle" /\ calls < MaxCalls
    /\ r # LocalhostRange
    /\ ~NetworkValid(r)
    /\ community' = c
    /\ supplied' = c
    /\ network_range' = r
    /\ DropLocals
    /\ outcome' = Returned(<<>>)
    /\ pc' = "returned"
    /\ now' = now + 1 /\ calls' = calls + 1
    /\ UNCHANGED callvars
    /\ UNCHANGED << discovered_devices, topology, stats_response, polls >>

\* a worker of the first pool takes the next submitted call without waiting
PingSlotFreeUnbounded == TRUE

\* a pool that keeps one of its max_workers threads idle
PingSlotFreeOffByOne == Cardinality(ping_running) < max_workers - 1

\* a worker of the first pool is free: the pool has max_workers threads
PingSlotFree == Cardinality(ping_running) < max_workers

PingStart ==
    /\ pc = "phase1"
    /\ ping_queue # <<>>
    /\ PingSlotFree
    /\ ping_running' = ping_running \cup { Head(ping_queue) }
    /\ ping_queue' = Tail(ping_queue)
    /\ ping_log' = Append(ping_log, Head(ping_queue))
    /\ UNCHANGED callvars
    /\ UNCHANGED << discovered_devices, topology, community, supplied, pc, network_range,
                    max_workers, ping_done, ping_seen, ping_results, snmp_workers,
                    snmp_queue, snmp_running, snmp_done, snmp_seen, discovered,
                    outcome, stats_response, now, calls, polls, snmp_log >>

PingFinish(ip, o) ==
    /\ pc = "phase1"
    /\ ip \in ping_running
    /\ ping_running' = ping_running \ { ip }
    /\ ping_done' = ping_done \cup { << ip, PingHost(o) >> }
    /\ UNCHANGED callvars
    /\ UNCHANGED << discovered_devices, topology, community, supplied, pc, network_range,
                    max_workers, ping_queue, ping_seen, ping_results, snmp_workers,
                    snmp_queue, snmp_running, snmp_done, snmp_seen, discovered,
                    outcome, stats_response, now, calls, polls, ping_log, snmp_log >>

\* the body of the first as_completed loop
PingRecord(results, ip, is_reachable) ==
    IF is_reachable THEN DictSet(results, ToStr(ip), TRUE) ELSE results

PingCollect(ip) ==
    /\ pc = "phase1"
    /\ \E f \in ping_done :
          /\ f[1] = ip
          /\ ip \notin ping_seen
          /\ ping_results' = PingRecord(ping_results, ip, f[2])
    /\ ping_seen' = ping_seen \cup { ip }
    /\ UNCHANGED callvars
    /\ UNCHANGED << discovered_devices, topology, community, supplied, pc, network_range,
                    max_workers, ping_queue, ping_running, ping_done, snmp_workers,
                    snmp_queue, snmp_running, snmp_done, snmp_seen, discovered,
                    outcome, stats_response, now, calls, polls, ping_log, snmp_log >>

\* leaving the first pool without waiting for it
PingSweepDrainedNoWait == TRUE

\* the as_completed loop is exhausted and the pool has shut down
PingSweepDrained ==
    /\ ping_queue = <<>>
    /\ ping_running = {}
    /\ ping_seen = { f[1] : f \in ping_done }

\* min(10, len(ping_results))
SnmpPoolSize(n) == Min(SnmpPoolCap, n)

\* phase 2 submits one probe per reachable address, if there is any
BeginPhase2 ==
    /\ pc = "phase1"
    /\ PingSweepDrained
    /\ pc' = "phase2"
    /\ snmp_queue' = DictKeySeq(ping_results)
    /\ snmp_workers' = IF ping_results # <<>> THEN SnmpPoolSize(Len(ping_results)) ELSE 0
    /\ UNCHANGED callvars
    /\ UNCHANGED << discovered_devices, topology, community, supplied, network_range,
                    max_workers, ping_queue, ping_running, ping_done, ping_seen,
                    ping_results, snmp_running, snmp_done, snmp_seen, discovered,
                    outcome, stats_response, now, calls, polls, ping_log, snmp_log >>

\* a worker of the second pool is free
SnmpSlotFree == Cardinality(snmp_running) < snmp_workers

ProbeStart ==
    /\ pc = "phase2"
    /\ snmp_queue # <<>>
    /\ SnmpSlotFree
    /\ snmp_running' = snmp_running \cup { Head(snmp_queue) }
    /\ snmp_queue' = Tail(snmp_queue)
    /\ snmp_log' = Append(snmp_log, Head(snmp_queue))
    /\ UNCHANGED callvars
    /\ UNCHANGED << discovered_devices, topology, community, supplied, pc, network_range,
                    max_workers, ping_queue, ping_running, ping_done, ping_seen,
                    ping_results, snmp_workers, snmp_done, snmp_seen, discovered,
                    outcome, stats_response, now, calls, polls, ping_log >>

\* the probe of address key (its text) ends with the answers of agent a
ProbeFinish(key, a, crash) ==
    /\ pc = "phase2"
    /\ key \in snmp_running
    /\ snmp_running' = snmp_running \ { key }
    /\ snmp_done' = snmp_done
           \cup { << key, SnmpProbe(ToInt(key), community, a, crash, now) >> }
    /\ UNCHANGED callvars
    /\ UNCHANGED << discovered_devices, topology, community, supplied, pc, network_range,
                    max_workers, ping_queue, ping_running, ping_done, ping_seen,
                    ping_results, snmp_workers, snmp_queue, snmp_seen, discovered,
                    outcome, stats_response, now, calls, polls, ping_log, snmp_log >>

\* a loop body in which a failed probe discards the devices found so far
ProbeRecordAbort(found, key, device_info) ==
    IF device_info # <<>> THEN DictSet(found, key, device_info[1]) ELSE <<>>

\* the body of the second as_completed loop
ProbeRecord(found, key, device_info) ==
    IF device_info # <<>> THEN DictSet(found, key, device_info[1]) ELSE found

ProbeCollect(key) ==
    /\ pc = "phase2"
    /\ \E f \in snmp_done :
          /\ f[1] = key
          /\ key \notin snmp_seen
          /\ discovered' = ProbeRecord(discovered, key, f[2])
    /\ snmp_seen' = snmp_seen \cup { key }
    /\ UNCHANGED callvars
    /\ UNCHANGED << discovered_devices, topology, community, supplied, pc, network_range,
                    max_workers, ping_queue, ping_running, ping_done, ping_seen,
                    ping_results, snmp_workers, snmp_queue, snmp_running, snmp_done,
                    outcome, stats_response, now, calls, polls, ping_log, snmp_log >>

\* the second as_completed loop is exhausted and the pool has shut down
ProbePassDrained ==
    /\ snmp_queue = <<>>
    /\ snmp_running = {}
    /\ snmp_seen = { f[1] : f \in snmp_done }

\* self.discovered_devices.update(discovered); return discovered
FinishRange ==
    /\ pc = "phase2"
    /\ ProbePassDrained
    /\ discovered_devices' = DictUpdate(discovered_devices, discovered)
    /\ outcome' = Returned(discovered)
    /\ pc' = "returned"
    /\ DropLocals
    /\ UNCHANGED callvars
    /\ UNCHANGED << topology, community, supplied, network_range, stats_response, now,
                    calls, polls >>

\* api_discover on '127.0.0.1/32': DeviceDiscovery.discover_localhost
DiscoverLocalhost(c, a, crash) ==
    /\ pc = "idle" /\ calls < MaxCalls
    /\ community' = c
    /\ supplied' = c
    /\ network_range' = LocalhostRange
    /\ LET device_info == SnmpProbe(ToInt(Localhost), c, a, crash, now + 1)
       IN  IF device_info # <<>>
           THEN /\ discovered_devices' =
                       DictSet(discovered_devices, Localhost, device_info[1])
                /\ outcome' = Returned(<< << Localhost, device_info[1] >> >>)
           ELSE /\ discovered_devices' = discovered_devices
                /\ outcome' = Returned(<<>>)
    /\ pc' = "returned"
    /\ now' = now + 1 /\ calls' = calls + 1
    /\ UNCHANGED callvars
    /\ UNCHANGED << topology, max_workers, ping_queue, pools, stats_response,
                    polls >>

\* api_discover, after the discovery returned: build_topology
ApiBuildTopology ==
    /\ pc = "returned"
    /\ topology' = BuildTopology(discovered_devices)
    /\ outcome' = NoOutcome
    /\ network_range' = <<>>
    /\ pc' = "idle"
    /\ UNCHANGED callvars
    /\ UNCHANGED << discovered_devices, community, supplied, max_workers, pools, ping_queue,
                    stats_response, now, calls, polls >>

\* api_device_stats: one statistics poll, answered by agent a
ApiDeviceStats(ip, a) ==
    /\ polls < MaxPolls
    /\ stats_response' = GetDeviceStats(ip, discovered_devices, a, now)
    /\ polls' = polls + 1
    /\ UNCHANGED callvars
    /\ UNCHANGED << discovered_devices, topology, community, supplied, pc, network_range,
                    max_workers, pools, ping_queue, outcome, now, calls >>

\* the requests to the discovery engine, with a community of comms and a
\* concurrency limit of workers, and the steps of its two pools
Discovery(comms, workers) ==
    \/ \E r \in RangeInputs, w \in workers, c \in comms : DiscoverRange(r, w, c)
    \/ \E r \in RangeInputs, w \in workers, c \in comms : DiscoverInvalid(r, w, c)
    \/ PingStart
    \/ \E ip \in ping_running, o \in PingOutcomes : PingFinish(ip, o)
    \/ \E ip \in SeqToSet(ping_log) : PingCollect(ip)
    \/ BeginPhase2
    \/ ProbeStart
    \/ \E key \in snmp_running, a \in RangeAgents, crash \in BOOLEAN :
          ProbeFinish(key, a, crash)
    \/ \E key \in SeqToSet(snmp_log) : ProbeCollect(key)
    \/ FinishRange
    \/ \E c \in comms, a \in LocalAgents, crash \in BOOLEAN :
          DiscoverLocalhost(c, a, crash)
    \/ ApiBuildTopology

Next == Discovery(Communities, WorkerInputs)

Spec == Init /\ [][Next]_vars

\* the engine used with the default community
NextDefault == Discovery({DefaultCommunity}, WorkerInputs)

\* the web front end with the defaults of api_discover (community 'public',
\* max_workers 20), and statistics polls at any moment
NextWeb ==
    \/ Discovery({DefaultCommunity}, {DefaultMaxWorkers})
    \/ \E ip \in StatsInputs, a \in Agents : ApiDeviceStats(ip, a)

SpecWeb == Init /\ [][NextWeb]_vars

(***************************************************************************)
(* The merge of line 163 seen by a reader of another thread.  dict.update  *)
(* stores one key after the other; each store replaces the reference held  *)
(* under the key by the Device the probe built, and no code writes into a  *)
(* stored Device.  A reader may run between any two stores; reads outside  *)
(* a merge see a registry that no merge is changing.                       *)
(***************************************************************************)
\* a store that copies the new Device into the stored one field by field,
\* and is seen by a reader before the time stamp is copied
StoreItemFieldwise(d, k, v) ==
    IF DictHas(d, k)
    THEN DictSet(d, k, [ v EXCEPT !.discovered_at = DictGet(d, k).discovered_at ])
    ELSE DictSet(d, k, v)

\* one store of dict.update
StoreItem(d, k, v) == DictSet(d, k, v)

\* the second pool has drained: update() starts on the registry
MergeBegin ==
    /\ pc = "phase2"
    /\ ProbePassDrained
    /\ pc' = "merging"
    /\ merge_base' = discovered_devices
    /\ merge_todo' = discovered
    /\ UNCHANGED << discovered_devices, topology, community, supplied, monvars, network_range,
                    max_workers, ping_queue, pools, outcome, stats_response, now,
                    calls, polls, call, observed >>

MergeStore ==
    /\ pc = "merging"
    /\ merge_todo # <<>>
    /\ discovered_devices' =
           StoreItem(discovered_devices, Head(merge_todo)[1], Head(merge_todo)[2])
    /\ merge_todo' = Tail(merge_todo)
    /\ UNCHANGED << topology, community, supplied, monvars, pc, network_range, max_workers,
                    ping_queue, pools, outcome, stats_response, now, calls, polls,
                    call, merge_base, observed >>

\* update() is over: return discovered
MergeEnd ==
    /\ pc = "merging"
    /\ merge_todo = <<>>
    /\ outcome' = Returned(discovered)
    /\ pc' = "returned"
    /\ DropLocals
    /\ merge_base' = <<>> /\ observed' = <<>>
    /\ UNCHANGED << discovered_devices, topology, community, supplied, monvars, network_range,
                    stats_response, now, calls, polls, call, merge_todo >>

\* api_device_full, get_device_config: a reader fetches the Device of key k
ReadDevice(k) ==
    /\ pc = "merging"
    /\ DictHas(discovered_devices, k)
    /\ observed' = << k, DictGet(discovered_devices, k) >>
    /\ UNCHANGED << discovered_devices, topology, community, supplied, monvars, pc, network_range,
                    max_workers, ping_queue, pools, outcome, stats_response, now,
                    calls, polls, call, merge_base, merge_todo >>

\* discoveries of one range of two hosts with the defaults of api_discover,
\* their merge store by store, and a reader
NextReaders ==
    \/ DiscoverRange(T_base \o <<"/","3","0">>, DefaultMaxWorkers, DefaultCommunity)
    \/ PingStart
    \/ \E ip \in ping_running, o \in PingOutcomes : PingFinish(ip, o)
    \/ \E ip \in SeqToSet(ping_log) : PingCollect(ip)
    \/ BeginPhase2
    \/ ProbeStart
    \/ \E key \in snmp_running, a \in RangeAgents, crash \in BOOLEAN :
          ProbeFinish(key, a, crash)
    \/ \E key \in SeqToSet(snmp_log) : ProbeCollect(key)
    \/ MergeBegin
    \/ MergeStore
    \/ MergeEnd
    \/ \E k \in DictKeys(discovered_devices) : ReadDevice(k)
    \/ ApiBuildTopology

SpecReaders == Init /\ [][NextReaders]_vars

(***************************************************************************)
(* build_topology called on a registry loaded from a results file          *)
(* (load_discovery_results), so that it runs on registries no discovery of *)
(* the bounded ranges above produces.                                      *)
(***************************************************************************)
\* the registries of the files: at most MaxDevices Devices, as snmp_probe
\* builds them, under pairwise distinct addresses
SavedRegistries ==
    LET addresses == { Localhost, T_base, <<"1","0",".","0",".","0",".","6">>, <<"1","0",".","0",".","1",".","7">> }
        entries == { << ip, SnmpProbe(ToInt(ip), DefaultCommunity, a, FALSE, 0)[1] >> :
                        ip \in addresses,
                        a \in { LinuxHost, OvsSwitch, Broken, Mininet3, Mininet2Sw } }
    IN  UNION { { reg \in [1..n -> entries] : DictWellFormed(reg) } : n \in 0..MaxDevices }

\* load_discovery_results of a file saved before any topology was built
LoadDiscoveryResults(reg) ==
    /\ pc = "idle"
    /\ discovered_devices' = reg
    /\ topology' = EmptyTopology
    /\ call' = [ op |-> "load_discovery_results" ]
    /\ UNCHANGED << community, supplied, monvars, pc, network_range, max_workers, ping_queue, pools,
                    outcome, stats_response, now, calls, polls, merge_base,
                    merge_todo, observed >>

\* a direct call of build_topology
CallBuildTopology ==
    /\ pc = "idle"
    /\ topology' = BuildTopology(discovered_devices)
    /\ call' = [ op |-> "build_topology" ]
    /\ UNCHANGED << discovered_devices, community, supplied, monvars, pc, network_range, max_workers,
                    ping_queue, pools, outcome, stats_response, now, calls, polls,
                    merge_base, merge_todo, observed >>

NextTopology ==
    \/ \E reg \in SavedRegistries : LoadDiscoveryResults(reg)
    \/ CallBuildTopology

SpecTopology == Init /\ [][NextTopology]_vars

(***************************************************************************)
(* A fresh instance loads a results file (load_discovery_results) and its  *)
(* topology is built again, on registries of up to MaxLinked Devices.      *)
(***************************************************************************)
MaxLinked == 3

\* Devices of the types host, switch, virtual_switch and firewall, with
\* three, one or no busy ethernet interface, in two /24 networks
LinkRegistries ==
    LET addresses == { T_base, <<"1","0",".","0",".","0",".","6">>, <<"1","0",".","0",".","0",".","7">>, <<"1","0",".","0",".","1",".","7">> }
        agents == { LinuxHost, [ Mininet3 EXCEPT !.sysDescr = LinuxHost.sysDescr ],
                    OvsSwitch, Mininet3,
                    [ Mininet3 EXCEPT !.sysDescr = <<"m","i","n","i","n","e","t">> ], Broken }
        entries == { << ip, SnmpProbe(ToInt(ip), DefaultCommunity, a, FALSE, 0)[1] >> :
                        ip \in addresses, a \in agents }
    IN  UNION { { reg \in [1..n -> entries] : DictWellFormed(reg) } : n \in 0..MaxLinked }

NextLinks ==
    \/ \E reg \in LinkRegistries :
          discovered_devices = <<>> /\ LoadDiscoveryResults(reg)
    \/ CallBuildTopology

SpecLinks == Init /\ [][NextLinks]_vars

(***************************************************************************)
(* Two api_discover requests at once on the shared DeviceDiscovery: while  *)
(* a range discovery is in its pools, a request for the default range      *)
(* '127.0.0.1/32' with its own community runs from its first line to its   *)
(* last.                                                                   *)
(***************************************************************************)
\* the whole of the second request: it sets discovery.community, probes the
\* local system (answered by agent a), stores the Device and builds the
\* topology
ConcurrentLocalhost(c, a) ==
    /\ pc \in { "phase1", "phase2" }
    /\ community' = c
    /\ LET device_info == SnmpProbe(ToInt(Localhost), c, a, FALSE, now)
       IN  discovered_devices' =
               IF device_info # <<>>
               THEN DictSet(discovered_devices, Localhost, device_info[1])
               ELSE discovered_devices
    /\ topology' = BuildTopology(discovered_devices')
    /\ UNCHANGED << supplied, pc, network_range, max_workers, ping_queue, pools,
                    outcome, stats_response, now, calls, polls, call, merge_base,
                    merge_todo, observed, monvars >>

\* a discovery of one range of two hosts with the defaults of api_discover,
\* and requests for the local system with another community
NextRace ==
    \/ DiscoverRange(T_base \o <<"/","3","0">>, DefaultMaxWorkers, DefaultCommunity)
    \/ PingStart
    \/ \E ip \in ping_running, o \in PingOutcomes : PingFinish(ip, o)
    \/ \E ip \in SeqToSet(ping_log) : PingCollect(ip)
    \/ BeginPhase2
    \/ ProbeStart
    \/ \E key \in snmp_running, a \in RangeAgents : ProbeFinish(key, a, FALSE)
    \/ \E key \in SeqToSet(snmp_log) : ProbeCollect(key)
    \/ FinishRange
    \/ ApiBuildTopology
    \/ \E a \in { Silent, OvsSwitch } : ConcurrentLocalhost("private", a)

SpecRace == Init /\ [][NextRace]_vars

(***************************************************************************)
(* NMSWebInterface (nms_web.py): start_monitoring, stop_monitoring and the *)
(* threads of _monitoring_loop, beside discoveries of the local system.    *)
(* A thread releases the interpreter in                                    *)
(* get_device_stats and in time.sleep, so the steps of a loop are the test *)
(* of its while condition and each advance of its iteration over the keys  *)
(* of the registry.                                                        *)
(***************************************************************************)
\* api_start_monitoring -> start_monitoring: nothing when monitoring is
\* active, otherwise the flag is set and a new thread is started
StartMonitoring ==
    /\ \E t \in 1..MaxLoops : loops[t].pc = "none"
    /\ IF monitoring_active
       THEN UNCHANGED << monitoring_active, loops >>
       ELSE /\ monitoring_active' = TRUE
            /\ LET t == CHOOSE t \in 1..MaxLoops :
                            /\ loops[t].pc = "none"
                            /\ \A u \in 1..(t - 1) : loops[u].pc # "none"
               IN  loops' = [ loops EXCEPT ![t].pc = "waiting" ]
    /\ UNCHANGED << discovered_devices, topology, community, supplied, pc,
                    network_range, max_workers, ping_queue, pools, outcome,
                    stats_response, now, calls, polls, call, merge_base,
                    merge_todo, observed, historical_data, last_stats >>

\* api_stop_monitoring -> stop_monitoring
StopMonitoring ==
    /\ monitoring_active
    /\ monitoring_active' = FALSE
    /\ UNCHANGED << discovered_devices, topology, community, supplied, pc,
                    network_range, max_workers, ping_queue, pools, outcome,
                    stats_response, now, calls, polls, call, merge_base,
                    merge_todo, observed, historical_data, loops, last_stats >>

\* a thread that was just started or has slept tests `while
\* self.monitoring_active`: it leaves the loop, or begins a cycle with an
\* iterator over the keys of the registry
LoopTest(t) ==
    /\ loops[t].pc = "waiting"
    /\ loops' = [ loops EXCEPT ![t] =
                    IF monitoring_active
                    THEN [ pc |-> "iterating", size |-> Len(discovered_devices),
                           pos |-> 0, keys |-> DictKeySeq(discovered_devices),
                           polled |-> {} ]
                    ELSE [ @ EXCEPT !.pc = "exited" ] ]
    /\ UNCHANGED << discovered_devices, topology, community, supplied, pc,
                    network_range, max_workers, ping_queue, pools, outcome,
                    stats_response, now, calls, polls, call, merge_base,
                    merge_todo, observed, historical_data, monitoring_active,
                    last_stats >>

\* a loop that writes the polled interfaces back into the Device
LoopNextStoring(t, a) ==
    /\ loops[t].pc = "iterating"
    /\ loops[t].pos < Len(discovered_devices)
    /\ LET ip == discovered_devices[loops[t].pos + 1][1]
       IN  /\ loops' = [ loops EXCEPT ![t].pos = @ + 1,
                                      ![t].polled = @ \cup { ip } ]
           /\ discovered_devices' =
                 DictSet(discovered_devices, ip,
                         [ DictGet(discovered_devices, ip)
                             EXCEPT !.interfaces = CombineInterfaces(a) ])
    /\ UNCHANGED << topology, community, supplied, pc, network_range,
                    max_workers, ping_queue, pools, outcome, stats_response, now,
                    calls, polls, call, merge_base, merge_todo, observed,
                    historical_data, monitoring_active, last_stats >>

\* the for statement asks its iterator for the next key: RuntimeError when
\* the dict changed size since the iterator was made (caught, the cycle is
\* over), else the next key, which is polled with get_device_stats answered
\* by agent a, else the end of the cycle; the thread then sleeps
LoopNext(t, a) ==
    /\ loops[t].pc = "iterating"
    /\ IF Len(discovered_devices) # loops[t].size \/ loops[t].pos = loops[t].size
       THEN /\ loops' = [ loops EXCEPT ![t].pc = "waiting" ]
            /\ UNCHANGED last_stats
       ELSE LET ip == discovered_devices[loops[t].pos + 1][1]
                stats == GetDeviceStats(ip, discovered_devices, a, now)
            IN  /\ loops' = [ loops EXCEPT ![t].pos = @ + 1,
                                           ![t].polled = @ \cup { ip } ]
                /\ last_stats' = IF stats # <<>> THEN DictSet(last_stats, ip, stats[1])
                                 ELSE last_stats
    /\ UNCHANGED << discovered_devices, topology, community, supplied, pc,
                    network_range, max_workers, ping_queue, pools, outcome,
                    stats_response, now, calls, polls, call, merge_base,
                    merge_todo, observed, historical_data, monitoring_active >>

\* the interface beside a registry of hosts found earlier
NextMonitor ==
    \/ /\ discovered_devices = <<>>
       /\ \E reg \in SavedRegistries :
             /\ \A i \in 1..Len(reg) :
                   /\ reg[i][1] = <<T_base, <<"1","0",".","0",".","0",".","6">>>>[i]
                   /\ reg[i][2].device_type = "host"
             /\ LoadDiscoveryResults(reg)
    \/ DiscoverLocalhost(DefaultCommunity, OvsSwitch, FALSE)
    \/ ApiBuildTopology
    \/ StartMonitoring
    \/ StopMonitoring
    \/ \E t \in 1..MaxLoops : LoopTest(t)
    \/ \E t \in 1..MaxLoops, a \in { LinuxHost, Broken } : LoopNext(t, a)

SpecMonitor == Init /\ [][NextMonitor]_vars

(***************************************************************************)
(* The history kept by the loops of the two dashboards (dashboard.py and   *)
(* topology_dashboard.py): a pass that runs to its end appends its data    *)
(* point, a pass in which a query or the rate computation raises is caught *)
(* by the loop's handler before the append.                                *)
(***************************************************************************)
MaxPasses == 104

\* max_history_points, and the literal 100 of dashboard.py
MaxHistoryPoints == 100

\* a history that is never trimmed
KeepAll(history, dashboard_data) == Append(history, dashboard_data)

\* historical_data.append(dashboard_data), then pop(0) when it is too long
KeepLast(history, dashboard_data) ==
    LET appended == Append(history, dashboard_data)
    IN  IF Len(appended) > MaxHistoryPoints THEN Tail(appended) ELSE appended

\* one pass of _monitor_loop; the passes of FailingPasses may raise
DashboardPass(completes) ==
    /\ pc = "idle" /\ now < MaxPasses
    /\ now' = now + 1
    /\ historical_data' =
          IF completes THEN KeepLast(historical_data, [ timestamp |-> now + 1 ])
          ELSE historical_data
    /\ UNCHANGED << discovered_devices, topology, community, supplied, pc,
                    network_range, max_workers, ping_queue, pools, outcome,
                    stats_response, calls, polls, call, merge_base, merge_todo,
                    observed, monitoring_active, loops, last_stats >>

\* a few of the passes may raise
NextHistory ==
    \E completes \in BOOLEAN :
        /\ completes \/ (now + 1) \in { 2, 50, 101, 103 }
        /\ DashboardPass(completes)

SpecHistory == Init /\ [][NextHistory]_vars

(***************************************************************************)
(* Direct calls of the methods that compute without touching the registry: *)
(* identify_device_type, calculate_rates (snmp_monitor.py), the rate       *)
(* computation of the topology dashboard's loop, and snmp_probe.  The      *)
(* variable call holds the arguments and the result of the last call.      *)
(***************************************************************************)
\* the descriptions classified: None, '', one word, two words, and each
\* keyword of the classifier alone
Descriptions ==
    LET words == { <<"L","i","n","u","x">>,
                   <<"S","W","I","T","C","H">>,
                   <<"R","o","u","t","e","r">>,
                   <<"m","i","n","i","n","e","t">>,
                   <<"F","i","r","e","w","a","l","l">>,
                   <<"W","i","r","e","l","e","s","s">>,
                   <<"p","r","i","n","t","e","r">>,
                   <<"l","a","p","t","o","p">>,
                   <<"C","a","t","a","l","y","s","t">>,
                   <<"u","b","u","n","t","u">> }
    IN  { None, <<>> } \cup words
        \cup { w1 \o <<" ">> \o w2 : w1 \in words, w2 \in words }
        \cup K_switch \cup K_router \cup K_host \cup K_virtual_switch
        \cup K_firewall \cup K_access_point

CallIdentifyDeviceType(system_desc) ==
    /\ pc = "idle" /\ call = NoCall
    /\ call' = [ op |-> "identify_device_type", system_desc |-> system_desc,
                 device_type |-> IdentifyDeviceType(system_desc) ]
    /\ UNCHANGED << discovered_devices, topology, community, supplied, monvars, pc, network_range,
                    max_workers, ping_queue, pools, outcome, stats_response, now,
                    calls, polls, merge_base, merge_todo, observed >>

\* a call that raised into its caller
Raised == [ raised |-> TRUE, value |-> None ]

RECURSIVE Gcd(_, _)
Gcd(a, b) == IF b = 0 THEN a ELSE Gcd(b, a % b)

\* the number n / d (d # 0), in lowest terms with a positive denominator
Fraction(n, d) ==
    LET g == Gcd(IF n < 0 THEN -n ELSE n, IF d < 0 THEN -d ELSE d)
    IN  [ num |-> (IF d < 0 THEN -n ELSE n) \div g,
          den |-> (IF d < 0 THEN -d ELSE d) \div g ]

\* a rate left as the division gives it
UnclampedRate(curr, prev, time_diff) ==
    Fraction((curr - prev) * time_diff.den, time_diff.num)

\* max(0, (curr - prev) / time_diff), time_diff # 0
ClampedRate(curr, prev, time_diff) ==
    LET rate == Fraction((curr - prev) * time_diff.den, time_diff.num)
    IN  IF rate.num > 0 THEN rate ELSE Fraction(0, 1)

\* the entry of rates for one index
RateSample(curr, prev, time_diff) ==
    LET in_bps == ClampedRate(curr.in_octets, prev.in_octets, time_diff)
        out_bps == ClampedRate(curr.out_octets, prev.out_octets, time_diff)
    IN  [ in_bps |-> in_bps,
          out_bps |-> out_bps,
          in_pps |-> ClampedRate(curr.in_packets, prev.in_packets, time_diff),
          out_pps |-> ClampedRate(curr.out_packets, prev.out_packets, time_diff),
          in_mbps |-> Fraction(in_bps.num * 8, in_bps.den * 1000000),
          out_mbps |-> Fraction(out_bps.num * 8, out_bps.den * 1000000) ]

\* SNMPMonitor.calculate_rates: the division by a zero time_diff raises
\* ZeroDivisionError at the first index both snapshots hold
CalculateRates(current_stats, previous_stats, time_diff) ==
    LET common == SelectSeq(DictKeySeq(current_stats),
                            LAMBDA index : DictHas(previous_stats, index))
    IN  IF common # <<>> /\ time_diff.num = 0 THEN Raised
        ELSE Returned([i \in 1..Len(common) |->
                 << common[i],
                    RateSample(DictGet(current_stats, common[i]),
                               DictGet(previous_stats, common[i]), time_diff) >>])

\* TopologyDashboard._monitor_loop: the same computation, made only when
\* there is a previous snapshot and time_diff > 0
MonitorLoopRates(current_stats, previous_stats, time_diff) ==
    IF previous_stats # <<>> /\ time_diff.num > 0
    THEN CalculateRates(current_stats, previous_stats, time_diff)
    ELSE Returned(<<>>)

\* snapshots of the counters: no interface, interface 1, interfaces 1 and 2,
\* interface 2
Snapshots ==
    LET blocks == { [ in_octets |-> a, out_octets |-> b, in_packets |-> c,
                      out_packets |-> d ] :
                        a \in {1000, 2000}, b \in {1000, 2000},
                        c \in {10, 20}, d \in {10, 20} }
        other == [ in_octets |-> 7, out_octets |-> 7, in_packets |-> 1,
                   out_packets |-> 1 ]
    IN  { <<>>, << <<"2", other>> >> }
        \cup { << <<"1", block>> >> : block \in blocks }
        \cup { << <<"1", block>>, <<"2", other>> >> : block \in blocks }

\* the intervals between two polls, in seconds: -5, 0, 1/2, 5, 10
TimeDiffs ==
    { Fraction(-5, 1), Fraction(0, 1), Fraction(1, 2), Fraction(5, 1),
      Fraction(10, 1) }

CallCalculateRates(current_stats, previous_stats, time_diff) ==
    /\ pc = "idle" /\ call = NoCall
    /\ call' = [ op |-> "calculate_rates", current_stats |-> current_stats,
                 previous_stats |-> previous_stats, time_diff |-> time_diff,
                 rates |-> CalculateRates(current_stats, previous_stats, time_diff) ]
    /\ UNCHANGED << discovered_devices, topology, community, supplied, monvars, pc, network_range,
                    max_workers, ping_queue, pools, outcome, stats_response, now,
                    calls, polls, merge_base, merge_todo, observed >>

\* one pass of the dashboard's loop over two successive snapshots
MonitorLoopPass(current_stats, previous_stats, time_diff) ==
    /\ pc = "idle" /\ call = NoCall
    /\ call' = [ op |-> "_monitor_loop", current_stats |-> current_stats,
                 previous_stats |-> previous_stats, time_diff |-> time_diff,
                 rates |-> MonitorLoopRates(current_stats, previous_stats, time_diff) ]
    /\ UNCHANGED << discovered_devices, topology, community, supplied, monvars, pc, network_range,
                    max_workers, ping_queue, pools, outcome, stats_response, now,
                    calls, polls, merge_base, merge_todo, observed >>

\* what an agent may answer to one probe: each get answers or not, the
\* walks answer nothing, everything or a part, the interface retrieval
\* raises or not
ProbeAnswers ==
    { [ base EXCEPT !.sysDescr = d, !.sysName = n, !.sysUpTime = u,
                    !.sysContact = c, !.sysLocation = l, !.raises = r ] :
        base \in { Silent, LinuxHost, OvsSwitch },
        d \in { None, LinuxHost.sysDescr }, n \in { None, LinuxHost.sysName },
        u \in { None, LinuxHost.sysUpTime }, c \in { None, LinuxHost.sysContact },
        l \in { None, LinuxHost.sysLocation }, r \in BOOLEAN }

\* a direct call of snmp_probe: its gets and walks return None and {} on
\* every failure, so nothing raises outside the interface retrieval
CallSnmpProbe(a) ==
    /\ pc = "idle" /\ call = NoCall
    /\ call' = [ op |-> "snmp_probe", ip |-> T_base, answers |-> a,
                 device_info |-> SnmpProbe(ToInt(T_base), community, a, FALSE, now) ]
    /\ UNCHANGED << discovered_devices, topology, community, supplied, monvars, pc, network_range,
                    max_workers, ping_queue, pools, outcome, stats_response, now,
                    calls, polls, merge_base, merge_todo, observed >>

\* what running the snmpwalk command can do: exit with status 0 and some
\* output lines, exit with another status, time out, or fail to start; a
\* line is the index, the type tag and the text after the tag
Executions ==
    LET line1 == [ index |-> "1", type |-> "STRING", text |-> <<"e","t","h","0">> ]
        line2 == [ index |-> "2", type |-> "Counter32", text |-> <<"1","0","0","0">> ]
        line3 == [ index |-> "3", type |-> "Hex-STRING", text |-> <<"0","0">> ]
    IN  { [ kind |-> k, stdout |-> s ] :
            k \in { "exit 0", "exit 1", "TimeoutExpired", "OSError" },
            s \in { <<>>, << line1 >>, << line3 >>, << line1, line2 >>,
                    << line2, line3 >> } }

\* SimpleSnmpMonitor.run_snmp_command: << the output >>, or <<>> for None
RunSnmpCommand(execution) ==
    IF execution.kind = "exit 0" THEN << execution.stdout >> ELSE <<>>

RECURSIVE ParseWalk(_)
\* the loop of snmp_walk over the lines of the output
ParseWalk(lines) ==
    IF lines = <<>> THEN <<>>
    ELSE LET line == lines[Len(lines)]
             results == ParseWalk(SubSeq(lines, 1, Len(lines) - 1))
         IN  IF line.type \in { "STRING", "INTEGER", "Counter32", "Counter64",
                                "Gauge32", "Timeticks" }
             THEN DictSet(results, line.index,
                          IF IsNumeric(line.text) THEN IntVal(ParseDigits(line.text))
                          ELSE TextVal(line.text))
             ELSE results

\* SimpleSnmpMonitor.snmp_walk
SnmpWalk(execution) ==
    LET output == RunSnmpCommand(execution)
    IN  IF output # <<>> /\ output[1] # <<>> THEN ParseWalk(output[1]) ELSE <<>>

\* a direct call of snmp_walk
CallSnmpWalk(execution) ==
    /\ pc = "idle" /\ call = NoCall
    /\ call' = [ op |-> "snmp_walk", execution |-> execution,
                 results |-> [ raised |-> FALSE, type |-> "dict",
                               value |-> SnmpWalk(execution) ] ]
    /\ UNCHANGED << discovered_devices, topology, community, supplied, monvars, pc, network_range,
                    max_workers, ping_queue, pools, outcome, stats_response, now,
                    calls, polls, merge_base, merge_todo, observed >>

\* the caller has taken the result of the call
CallReturns ==
    /\ call # NoCall
    /\ call' = NoCall
    /\ UNCHANGED << discovered_devices, topology, community, supplied, monvars, pc, network_range,
                    max_workers, ping_queue, pools, outcome, stats_response, now,
                    calls, polls, merge_base, merge_todo, observed >>

NextCalls ==
    \/ CallReturns
    \/ \E system_desc \in Descriptions : CallIdentifyDeviceType(system_desc)
    \/ \E current_stats \in Snapshots, previous_stats \in Snapshots,
          time_diff \in TimeDiffs :
          CallCalculateRates(current_stats, previous_stats, time_diff)
    \/ \E current_stats \in Snapshots, previous_stats \in Snapshots,
          time_diff \in TimeDiffs :
          MonitorLoopPass(current_stats, previous_stats, time_diff)
    \/ \E a \in ProbeAnswers : CallSnmpProbe(a)
    \/ \E execution \in Executions : CallSnmpWalk(execution)

SpecCalls == Init /\ [][NextCalls]_vars

(***************************************************************************)
(* Properties of the discovery orchestrator.                               *)
(***************************************************************************)
\* the addresses whose ping future has completed
PingCompleted == { f[1] : f \in ping_done }

\* the addresses whose probe future has completed
ProbeCompleted == { f[1] : f \in snmp_done }

\* C1: no snmp_probe of phase 2 has started before every ping_host call of
\* phase 1 has completed: once a probe is submitted or started, no ping is
\* waiting or in flight and every host address of the range has a result.
C1_PhaseOrder ==
    (snmp_queue # <<>> \/ snmp_log # <<>> \/ snmp_running # {}) =>
        /\ ping_queue = <<>>
        /\ ping_running = {}
        /\ PingCompleted = SeqToSet(ping_log)
        /\ Len(ping_log) = Len(Hosts(network_range))

\* a probe is in flight after a sweep of two addresses
C1_Witness ==
    /\ pc = "phase2"
    /\ snmp_running # {}
    /\ Len(ping_log) = 2

\* the addresses of a range strictly between its network address and its
\* broadcast address
StrictHostSet(r) == (NetworkAddress(r) + 1)..(BroadcastAddress(r) - 1)

\* the host addresses of a range: those strictly between the network and the
\* broadcast address when the prefix is at most 30, both addresses of a /31,
\* the single address of a /32
RangeHostSet(r) ==
    IF NetworkPrefix(r) >= 31 THEN NetworkAddress(r)..BroadcastAddress(r)
    ELSE StrictHostSet(r)

\* every address pinged, probed or recorded by the running call lies in
\* hostset, every recorded address was reported reachable and its probe
\* returned the recorded Device
DiscoveryWithin(hostset) ==
    /\ \A ip \in SeqToSet(ping_log) \cup ping_running \cup SeqToSet(ping_queue) :
          ip \in hostset
    /\ \A key \in SeqToSet(snmp_log) \cup snmp_running \cup SeqToSet(snmp_queue) :
          /\ ToInt(key) \in hostset
          /\ << ToInt(key), TRUE >> \in ping_done
    /\ \A key \in DictKeys(discovered) :
          /\ ToInt(key) \in hostset
          /\ << ToInt(key), TRUE >> \in ping_done
          /\ << key, << DictGet(discovered, key) >> >> \in snmp_done

\* C2, as stated: every address pinged, probed or returned is a host address
\* of the range with the network and the broadcast address excluded.
C2_Original ==
    pc \in {"phase1", "phase2"} => DiscoveryWithin(StrictHostSet(network_range))

\* C2, amended: every address in the mapping under construction (the one
\* discover_network_range returns) is a host address of the range, where the
\* network and broadcast addresses are excluded for a prefix of at most 30
\* and a /31 or /32 has all its addresses as hosts; it was reported reachable
\* and its probe returned the recorded Device; no other address is pinged
\* or probed.
C2_HostsOnly ==
    pc \in {"phase1", "phase2"} => DiscoveryWithin(RangeHostSet(network_range))

\* a /30 whose two hosts were both pinged, one of them recorded
C2_Witness ==
    /\ pc = "phase2"
    /\ NetworkPrefix(network_range) = 30
    /\ Len(ping_log) = 2
    /\ Len(discovered) = 1

\* number of occurrences of x in the log q
Count(q, x) == Cardinality({ i \in 1..Len(q) : q[i] = x })

C4_FailureIsolated ==
    [][ (pc = "phase2" /\ pc' = "returned") =>
           /\ \A ip \in RangeHostSet(network_range) :
                 /\ ip \in PingCompleted
                 /\ << ip, TRUE >> \in ping_done => ToStr(ip) \in ProbeCompleted
           /\ \A f \in snmp_done :
                 f[2] # <<>> =>
                    /\ DictHas(outcome'.value, f[1])
                    /\ DictGet(outcome'.value, f[1]) = f[2][1]
                    /\ DictHas(discovered_devices', f[1])
                    /\ DictGet(discovered_devices', f[1]) = f[2][1] ]_vars

\* about to return: one address failed its ping or its probe, another one
\* is in the mapping
C4_Witness ==
    /\ pc = "phase2"
    /\ ProbePassDrained
    /\ Len(discovered) = 1
    /\ \/ \E f \in ping_done : ~f[2]
       \/ \E f \in snmp_done : f[2] = <<>>

\* every step of the pools and of the calling thread is eventually taken
\* when it stays possible: the workers run, each ping and each SNMP command
\* ends (by itself or by its timeout), the calling thread is scheduled
Fairness ==
    /\ WF_vars(PingStart)
    /\ WF_vars(\E ip \in ping_running, o \in PingOutcomes : PingFinish(ip, o))
    /\ WF_vars(\E ip \in SeqToSet(ping_log) : PingCollect(ip))
    /\ WF_vars(BeginPhase2)
    /\ WF_vars(ProbeStart)
    /\ WF_vars(\E key \in snmp_running, a \in RangeAgents, crash \in BOOLEAN :
                  ProbeFinish(key, a, crash))
    /\ WF_vars(\E key \in SeqToSet(snmp_log) : ProbeCollect(key))
    /\ WF_vars(FinishRange)
    /\ WF_vars(ApiBuildTopology)

SpecFair == Init /\ [][NextDefault]_vars /\ Fairness

\* C5: every discover_network_range call on a valid range eventually
\* returns, and what it returns is a mapping whose Devices are in the
\* registry.
C5_Returns ==
    /\ (pc \in {"phase1", "phase2"}) ~> (pc = "returned")
    /\ [](pc = "returned" =>
             /\ outcome.value # None
             /\ \A k \in DictKeys(outcome.value) :
                   /\ DictHas(discovered_devices, k)
                   /\ DictGet(discovered_devices, k) = DictGet(outcome.value, k))

\* a call on a range of two hosts returned one Device
C5_Witness ==
    /\ pc = "returned"
    /\ NetworkValid(network_range)
    /\ NetworkPrefix(network_range) < 32
    /\ Len(outcome.value) = 1

\* C6: on a malformed range no ping and no probe is submitted or started,
\* and the registry and the stored topology keep their values.
C6_InvalidRejected ==
    /\ [](network_range \in MalformedInputs =>
             /\ ping_queue = <<>> /\ ping_running = {} /\ ping_log = <<>>
             /\ snmp_queue = <<>> /\ snmp_running = {} /\ snmp_log = <<>>
             /\ pc = "returned")
    /\ [][ network_range' \in MalformedInputs =>
              /\ discovered_devices' = discovered_devices
              /\ topology' = topology ]_vars

\* a malformed range was rejected while the registry holds a Device
C6_Witness ==
    /\ pc = "returned"
    /\ network_range \in MalformedInputs
    /\ discovered_devices # <<>>

\* C7: what the caller gets for a malformed range differs from what it gets
\* for a valid range in which no device answered (the empty mapping,
\* returned normally).
C7_InvalidDistinguishable ==
    (pc = "returned" /\ network_range \in MalformedInputs) =>
        outcome # Returned(<<>>)

\* a valid range in which no device answered returns the empty mapping
C7_EmptyDiscovery ==
    /\ pc = "returned"
    /\ network_range \notin MalformedInputs
    /\ network_range # LocalhostRange
    /\ outcome = Returned(<<>>)

\* C8: when a discovery returns, the registry holds, for every address of
\* the returned mapping, exactly the returned Device, every other entry is
\* unchanged, and the addresses are the old ones and the returned ones.
C8_LastProbeWins ==
    [][ (pc # "returned" /\ pc' = "returned") =>
           /\ DictKeys(discovered_devices') =
                 DictKeys(discovered_devices) \cup DictKeys(outcome'.value)
           /\ \A k \in DictKeys(outcome'.value) :
                 DictGet(discovered_devices', k) = DictGet(outcome'.value, k)
           /\ \A k \in DictKeys(discovered_devices) \ DictKeys(outcome'.value) :
                 DictGet(discovered_devices', k) = DictGet(discovered_devices, k) ]_vars

\* an entry was overwritten in place: it precedes an entry of the earlier
\* discovery and carries the time of the later one
C8_Witness ==
    /\ Len(discovered_devices) >= 2
    /\ discovered_devices[1][2].discovered_at > discovered_devices[2][2].discovered_at

\* C9: merging the returned Devices a second time leaves the registry as it
\* is, and the registry never holds two entries for one address.
C9_MergeIdempotent ==
    /\ DictWellFormed(discovered_devices)
    /\ pc = "returned" =>
          DictUpdate(discovered_devices, outcome.value) = discovered_devices

\* the second discovery found again the first address of the registry,
\* which also holds an address found only by the first discovery
C9_Witness ==
    /\ pc = "returned"
    /\ calls = 2
    /\ Len(outcome.value) = 1
    /\ Len(discovered_devices) = 2
    /\ outcome.value[1] = discovered_devices[1]
    /\ discovered_devices[2][2].discovered_at = 1

\* C10: no step of a discovery, of a topology build or of a statistics poll
\* removes an address from the registry.
C10_NeverDeleted ==
    [][ DictKeys(discovered_devices) \subseteq DictKeys(discovered_devices') ]_vars

\* a second discovery found nothing and a poll was made, the registry still
\* holds the Device of the first discovery
C10_Witness ==
    /\ pc = "returned"
    /\ calls = 2
    /\ polls = 1
    /\ outcome.value = <<>>
    /\ discovered_devices # <<>>

(***************************************************************************)
(* Properties of the registry under concurrent reads.                      *)
(***************************************************************************)
\* the Devices a read of key k may return while a merge runs: the one the
\* registry held when the merge began, the one the merge brings
SnapshotsOf(k) ==
    (IF DictHas(merge_base, k) THEN { DictGet(merge_base, k) } ELSE {})
    \cup (IF DictHas(discovered, k) THEN { DictGet(discovered, k) } ELSE {})

\* C11: every read of a key made while a merge runs returns the complete
\* Device the registry held for that key before the merge or the complete
\* Device the merge brings, never a Device mixing fields of the two.
C11_ReadsAtomic ==
    observed # <<>> => observed[2] \in SnapshotsOf(observed[1])

\* a reader got the new Device of a key the registry already held, while
\* the merge still has an entry to store
C11_Witness ==
    /\ pc = "merging"
    /\ observed # <<>>
    /\ merge_todo # <<>>
    /\ DictHas(merge_base, observed[1])
    /\ observed[2] # DictGet(merge_base, observed[1])

(***************************************************************************)
(* Properties of build_topology.                                           *)
(***************************************************************************)
\* build_topology has just run on the registry
Built == call.op = "build_topology"

NodeIds(topo) == { topo.nodes[i].id : i \in 1..Len(topo.nodes) }

\* C12: after build_topology, on either path, the source and the target of
\* every link of the graph are ids of nodes of the graph.
C12_LinksClosed ==
    Built => \A i \in 1..Len(topology.links) :
                /\ topology.links[i].source \in NodeIds(topology)
                /\ topology.links[i].target \in NodeIds(topology)

\* the general path linked two switches
C12_Witness ==
    /\ Built
    /\ \E i \in 1..Len(topology.links) : topology.links[i].type = "switch_link"

\* the graph holds the synthetic switch node
SyntheticTaken(topo) ==
    \E i \in 1..Len(topo.nodes) :
        topo.nodes[i].id = T_s1 /\ topo.nodes[i].description = T_MininetSwitch

\* the graph holds one node per Device, under the address of the Device
GeneralTaken(reg, topo) ==
    [i \in 1..Len(topo.nodes) |-> topo.nodes[i].id] = DictKeySeq(reg)

\* the registry is one Device with an interface named after a switch port
SingleWithSwitchPort(reg) ==
    /\ Len(reg) = 1
    /\ \E i \in 1..Len(reg[1][2].interfaces) :
          IsMininetPort(reg[1][2].interfaces[i][2])

\* C13, as stated: the synthetic expansion is taken exactly when the registry
\* is one Device with a switch-port interface, whatever its address; the
\* general path otherwise, never both.
C13_Original ==
    Built =>
        /\ SyntheticTaken(topology) <=> SingleWithSwitchPort(discovered_devices)
        /\ GeneralTaken(discovered_devices, topology) <=> ~SyntheticTaken(topology)

\* C13, amended: the synthetic expansion is taken exactly when the registry
\* is one Device, registered under 127.0.0.1, with an interface whose name
\* contains s1-eth, s2-eth or s3-eth; in every other case (a single Device
\* with such interfaces under another address included) the general path is
\* taken, and never both.
C13_PathChoice ==
    Built =>
        /\ SyntheticTaken(topology) <=>
              /\ SingleWithSwitchPort(discovered_devices)
              /\ discovered_devices[1][1] = Localhost
        /\ GeneralTaken(discovered_devices, topology) <=> ~SyntheticTaken(topology)

\* a single Device with switch ports under another address went down the
\* general path
C13_Witness ==
    /\ Built
    /\ SingleWithSwitchPort(discovered_devices)
    /\ discovered_devices[1][1] # Localhost
    /\ GeneralTaken(discovered_devices, topology)

\* the interfaces of the Device are named s1-eth1 .. s1-ethN, N >= 1
PortsOfS1(device) ==
    /\ device.interfaces # <<>>
    /\ \A i \in 1..Len(device.interfaces) :
          device.interfaces[i][2].name = T_s1eth \o NatToText(i)

\* one switch node s1, N host nodes with distinct ids, N host_link entries
\* from distinct hosts to s1, no node under the address of the Device
ExpandedAroundS1(reg, topo, N) ==
    LET switches == { i \in 1..Len(topo.nodes) : topo.nodes[i].type = "switch" }
        hosts == { i \in 1..Len(topo.nodes) : topo.nodes[i].type = "host" }
    IN  /\ Cardinality(switches) = 1
        /\ \A i \in switches : topo.nodes[i].id = T_s1
        /\ Cardinality(hosts) = N
        /\ Cardinality({ topo.nodes[i].id : i \in hosts }) = N
        /\ Len(topo.nodes) = N + 1
        /\ \A i \in 1..Len(topo.nodes) : topo.nodes[i].id # reg[1][1]
        /\ Len(topo.links) = N
        /\ \A i \in 1..N :
              /\ topo.links[i].type = "host_link"
              /\ topo.links[i].target = T_s1
              /\ topo.links[i].source \in { topo.nodes[j].id : j \in hosts }
        /\ Cardinality({ topo.links[i].source : i \in 1..N }) = N

\* C14, as stated: a single Device with interfaces s1-eth1 .. s1-ethN gives
\* one switch node s1, N distinct host nodes, N host_link entries to s1 and
\* no node for the Device.
C14_Original ==
    (Built /\ Len(discovered_devices) = 1 /\ PortsOfS1(discovered_devices[1][2])) =>
        ExpandedAroundS1(discovered_devices, topology,
                         Len(discovered_devices[1][2].interfaces))

\* C14, amended: a single Device registered under 127.0.0.1 with interfaces
\* s1-eth1 .. s1-ethN gives one switch node s1, N host nodes with pairwise
\* distinct ids, N host_link entries each from a distinct host to s1, and no
\* node for the Device.
C14_Expansion ==
    (/\ Built
     /\ Len(discovered_devices) = 1
     /\ discovered_devices[1][1] = Localhost
     /\ PortsOfS1(discovered_devices[1][2])) =>
        ExpandedAroundS1(discovered_devices, topology,
                         Len(discovered_devices[1][2].interfaces))

\* the local system with ports s1-eth1, s1-eth2, s1-eth3 was expanded
C14_Witness ==
    /\ Built
    /\ Len(discovered_devices) = 1
    /\ discovered_devices[1][1] = Localhost
    /\ PortsOfS1(discovered_devices[1][2])
    /\ Len(discovered_devices[1][2].interfaces) = 3
    /\ Len(topology.links) = 3

\* the switch id of a port name: what precedes "-eth"
SwitchIdOf(name) == Split(name, "-")[1]

\* C15: on the synthetic path there is one switch node per switch id found
\* among the matching ports, and the host_link of a port ends at the switch
\* node of the port's switch id.
C15_SwitchPerPrefix ==
    (Built /\ SyntheticTaken(topology)) =>
        LET ports == SelectSeq(DictValueSeq(discovered_devices[1][2].interfaces),
                               IsMininetPort)
        IN  /\ { topology.nodes[i].id :
                   i \in { j \in 1..Len(topology.nodes) :
                             topology.nodes[j].type = "switch" } }
               = { SwitchIdOf(ports[i].name) : i \in 1..Len(ports) }
            /\ \A i \in 1..Len(topology.links) :
                  \E j \in 1..Len(ports) :
                      /\ topology.links[i].interface = ports[j].name
                      /\ topology.links[i].target = SwitchIdOf(ports[j].name)

\* the ports s1-eth1 and s2-eth1 of the local system were expanded
C15_Witness ==
    /\ Built
    /\ SyntheticTaken(topology)
    /\ Len(topology.links) = 2
    /\ topology.links[2].interface = <<"s","2","-","e","t","h","1">>

(***************************************************************************)
(* Properties of the classifier.                                           *)
(***************************************************************************)
\* the categories in their priority order, and the keywords of each
Categories ==
    << "switch", "router", "host", "virtual_switch", "firewall", "access_point" >>

KeywordsOf(i) ==
    << K_switch, K_router, K_host, K_virtual_switch, K_firewall, K_access_point >>[i]

\* a keyword of category i occurs in the description, whatever the case
Matches(i, desc) ==
    Truthy(desc) /\ \E keyword \in KeywordsOf(i) : Contains(Lower(keyword), Lower(desc))

\* C16: the type is the first category, in the order switch, router, host,
\* virtual_switch, firewall, access_point, one of whose keywords occurs
\* case-insensitively in the description, and unknown when none occurs.
C16_FirstCategoryWins ==
    call.op = "identify_device_type" =>
        LET matching == { i \in 1..Len(Categories) : Matches(i, call.system_desc) }
        IN  IF matching = {} THEN call.device_type = "unknown"
            ELSE \E i \in matching :
                    /\ \A j \in matching : i <= j
                    /\ call.device_type = Categories[i]

\* a description with a host keyword and a switch keyword in capitals is a
\* switch
C16_Witness ==
    /\ call.op = "identify_device_type"
    /\ call.system_desc = <<"L","i","n","u","x"," ","S","W","I","T","C","H">>
    /\ call.device_type = "switch"

(***************************************************************************)
(* Properties of the rate computation.                                     *)
(***************************************************************************)
\* a rate computation returned its rates
RatesReturned ==
    /\ call.op \in { "calculate_rates", "_monitor_loop" }
    /\ ~call.rates.raised

\* the counters and the rate computed from each
RateOf ==
    [ in_octets |-> "in_bps", out_octets |-> "out_bps",
      in_packets |-> "in_pps", out_packets |-> "out_pps" ]

\* C17: in every returned sample, a counter whose current value is smaller
\* than its previous value has the rate 0, for any time_diff for which a
\* sample is returned.
C17_MonotoneClamped ==
    RatesReturned =>
        \A i \in 1..Len(call.rates.value) :
            LET index == call.rates.value[i][1]
                curr == DictGet(call.current_stats, index)
                prev == DictGet(call.previous_stats, index)
            IN  \A counter \in DOMAIN RateOf :
                    curr[counter] < prev[counter] =>
                        call.rates.value[i][2][RateOf[counter]].num = 0

\* over 5 seconds a counter went down and its rate is 0, while another one
\* went up
C17_Witness ==
    /\ call.op = "calculate_rates"
    /\ call.time_diff = Fraction(5, 1)
    /\ ~call.rates.raised
    /\ \E i \in 1..Len(call.rates.value) :
          LET index == call.rates.value[i][1]
          IN  /\ DictGet(call.current_stats, index).in_octets
                    < DictGet(call.previous_stats, index).in_octets
              /\ call.rates.value[i][2].in_bps.num = 0
              /\ call.rates.value[i][2].out_bps.num > 0

\* C18: every field of every returned sample is >= 0, the Mbps fields are
\* the bps fields times 8 / 1000000, and in_octets 1000 -> 2000 over 5
\* seconds gives in_bps 200 and in_mbps 0.0016 (= 1/625).
C18_NonNegative ==
    RatesReturned =>
        \A i \in 1..Len(call.rates.value) :
            LET index == call.rates.value[i][1]
                curr == DictGet(call.current_stats, index)
                prev == DictGet(call.previous_stats, index)
                sample == call.rates.value[i][2]
            IN  /\ \A field \in DOMAIN sample :
                      sample[field].num >= 0 /\ sample[field].den > 0
                /\ sample.in_mbps.num * sample.in_bps.den * 1000000
                      = sample.in_bps.num * 8 * sample.in_mbps.den
                /\ sample.out_mbps.num * sample.out_bps.den * 1000000
                      = sample.out_bps.num * 8 * sample.out_mbps.den
                /\ (/\ curr.in_octets = 2000 /\ prev.in_octets = 1000
                    /\ call.time_diff = Fraction(5, 1)) =>
                      /\ sample.in_bps = [ num |-> 200, den |-> 1 ]
                      /\ sample.in_mbps = [ num |-> 1, den |-> 625 ]

\* the spec's scenario, with a packet counter that went down
C18_Witness ==
    /\ call.op = "calculate_rates"
    /\ call.time_diff = Fraction(5, 1)
    /\ ~call.rates.raised
    /\ \E i \in 1..Len(call.rates.value) :
          LET index == call.rates.value[i][1]
          IN  /\ DictGet(call.current_stats, index).in_octets = 2000
              /\ DictGet(call.previous_stats, index).in_octets = 1000
              /\ DictGet(call.current_stats, index).in_packets
                    < DictGet(call.previous_stats, index).in_packets
              /\ call.rates.value[i][2].in_mbps = [ num |-> 1, den |-> 625 ]

\* C19: with time_diff <= 0 the rate computation returns the empty result:
\* it does not raise and emits no sample.
C19_EmptyOnBadInterval ==
    (/\ call.op \in { "calculate_rates", "_monitor_loop" }
     /\ call.time_diff.num <= 0) =>
        call.rates = Returned(<<>>)

\* the dashboard's loop met a zero interval with an interface in both
\* snapshots and computed no rate
C19_Witness ==
    /\ call.op = "_monitor_loop"
    /\ call.time_diff.num = 0
    /\ \E index \in DictKeys(call.current_stats) :
          DictHas(call.previous_stats, index)
    /\ call.rates = Returned(<<>>)

SwitchesNear(reg, ip) ==
    { k \in 1..Len(reg) :
        /\ reg[k][2].device_type \in { "switch", "virtual_switch" }
        /\ ToInt(reg[k][1]) \div 256 = ToInt(ip) \div 256 }

\* the positions in links of the host_link entries leaving address ip
HostLinksOf(topo, ip) ==
    { i \in 1..Len(topo.links) :
        topo.links[i].type = "host_link" /\ topo.links[i].source = ip }

\* C21: on the general path each host is the source of at most one
\* host_link; its target is the first switch or virtual_switch, in registry
\* order, whose address has the host's first three octets, and a host
\* without such a switch has no link.
C21_FirstSwitchOfSubnet ==
    (Built /\ GeneralTaken(discovered_devices, topology)) =>
        \A h \in 1..Len(discovered_devices) :
            discovered_devices[h][2].device_type = "host" =>
                LET ip == discovered_devices[h][1]
                    near == SwitchesNear(discovered_devices, ip)
                    out == HostLinksOf(topology, ip)
                IN  /\ Cardinality(out) <= 1
                    /\ near = {} => out = {}
                    /\ near # {} =>
                          \E i \in out, k \in near :
                              /\ \A m \in near : k <= m
                              /\ topology.links[i].target = discovered_devices[k][1]

\* a host after two switches of its network, one of them a virtual_switch,
\* is linked to the one that comes first in the registry
C21_Witness ==
    /\ Built /\ GeneralTaken(discovered_devices, topology)
    /\ Len(discovered_devices) = 3
    /\ discovered_devices[3][2].device_type = "host"
    /\ SwitchesNear(discovered_devices, discovered_devices[3][1]) = { 1, 2 }
    /\ ToInt(discovered_devices[1][1]) > ToInt(discovered_devices[2][1])
    /\ { discovered_devices[1][2].device_type, discovered_devices[2][2].device_type }
          = { "switch", "virtual_switch" }
    /\ \E i \in HostLinksOf(topology, discovered_devices[3][1]) :
          topology.links[i].target = discovered_devices[1][1]

\* the interfaces of a Device that are up, have received octets and are
\* named after an ethernet port
BusyEthernet(device) ==
    { m \in 1..Len(device.interfaces) :
        LET iface == device.interfaces[m][2]
        IN  /\ iface.oper_status = T_up
            /\ iface.in_octets.tag = "int" /\ iface.in_octets.n > 0
            /\ Contains(T_eth, iface.name) }

\* a switch or virtual_switch with more than one such interface
Interconnecting(device) ==
    /\ device.device_type \in { "switch", "virtual_switch" }
    /\ Cardinality(BusyEthernet(device)) > 1

\* the positions in links of the switch_link entries between two addresses
SwitchLinksBetween(topo, ip1, ip2) ==
    { i \in 1..Len(topo.links) :
        /\ topo.links[i].type = "switch_link"
        /\ { topo.links[i].source, topo.links[i].target } = { ip1, ip2 } }

\* C22: on the general path two distinct devices are joined by a
\* switch_link exactly when both are switches or virtual switches with more
\* than one interface that is up, has in_octets > 0 and has "eth" in its
\* name; such a pair gets exactly one link, and no device is linked to
\* itself.
C22_SwitchLinks ==
    (Built /\ GeneralTaken(discovered_devices, topology)) =>
        /\ \A i \in 1..Len(topology.links) :
              topology.links[i].type = "switch_link" =>
                  /\ topology.links[i].source # topology.links[i].target
                  /\ { topology.links[i].source, topology.links[i].target }
                        \subseteq DictKeys(discovered_devices)
        /\ \A i, j \in 1..Len(discovered_devices) :
              i < j =>
                  Cardinality(SwitchLinksBetween(topology, discovered_devices[i][1],
                                                 discovered_devices[j][1]))
                     = IF /\ Interconnecting(discovered_devices[i][2])
                          /\ Interconnecting(discovered_devices[j][2])
                       THEN 1 ELSE 0

\* a switch and a virtual_switch with three busy ports each are linked, and
\* the host with three busy ports beside them is not
C22_Witness ==
    /\ Built /\ GeneralTaken(discovered_devices, topology)
    /\ Len(discovered_devices) = 3
    /\ \E i, j, k \in 1..3 :
          /\ discovered_devices[i][2].device_type = "switch"
          /\ discovered_devices[j][2].device_type = "virtual_switch"
          /\ discovered_devices[k][2].device_type = "host"
          /\ \A d \in { i, j, k } :
                Cardinality(BusyEthernet(discovered_devices[d][2])) = 3
          /\ SwitchLinksBetween(topology, discovered_devices[i][1],
                                discovered_devices[j][1]) # {}
    /\ Cardinality({ i \in 1..Len(topology.links) :
                       topology.links[i].type = "switch_link" }) = 1

(***************************************************************************)
(* Properties of the identity fields of a probed Device.                   *)
(***************************************************************************)
\* C23: in a Device returned by snmp_probe every optional identity field
\* whose query returned None holds its fallback: the name is
\* "Device-<address>", and uptime, contact and location are "Unknown"; none
\* of them is None.
C23_Fallbacks ==
    (call.op = "snmp_probe" /\ call.device_info # <<>>) =>
        LET device == call.device_info[1]
        IN  /\ call.answers.sysName = None =>
                  device.system_name = <<"D","e","v","i","c","e","-">> \o call.ip
            /\ call.answers.sysUpTime = None => device.system_uptime = T_Unknown
            /\ call.answers.sysContact = None => device.system_contact = T_Unknown
            /\ call.answers.sysLocation = None => device.system_location = T_Unknown
            /\ None \notin { device.system_name, device.system_uptime,
                             device.system_contact, device.system_location }

\* the name, contact and location queries returned None and the Device holds
\* their fallbacks, the uptime query answered
C23_Witness ==
    /\ call.op = "snmp_probe" /\ call.device_info # <<>>
    /\ call.answers.sysName = None /\ call.answers.sysContact = None
    /\ call.answers.sysLocation = None /\ call.answers.sysUpTime # None
    /\ call.device_info[1].system_name = <<"D","e","v","i","c","e","-">> \o call.ip
    /\ call.device_info[1].system_contact = T_Unknown
    /\ call.device_info[1].system_location = T_Unknown

(***************************************************************************)
(* Properties of the SNMP client.                                          *)
(***************************************************************************)
\* the command ran to the end with status 0
Queried(execution) == execution.kind = "exit 0"

\* C24: snmp_walk does not raise; it returns the empty mapping only when the
\* device was queried successfully, and it returns None, a value different
\* from the empty mapping, when the command timed out, could not run or
\* ended with a non-zero status.
C24_WalkOutcomes ==
    call.op = "snmp_walk" =>
        /\ ~call.results.raised
        /\ (call.results.type = "dict" /\ call.results.value = <<>>) =>
              Queried(call.execution)
        /\ ~Queried(call.execution) => call.results.type = "NoneType"

\* a successful walk of an empty table returned the empty mapping
C24_Witness ==
    /\ call.op = "snmp_walk"
    /\ Queried(call.execution) /\ call.execution.stdout = <<>>
    /\ ~call.results.raised
    /\ call.results.type = "dict" /\ call.results.value = <<>>

(***************************************************************************)
(* Properties of the dashboards' history.                                  *)
(***************************************************************************)
\* C25: historical_data holds at most 100 data points in chronological
\* order, and they are the most recent passes that completed: a pass that
\* completes puts its point last and evicts the oldest point only from a
\* full history, a pass that fails changes nothing.
C25_BoundedHistory ==
    /\ [](/\ Len(historical_data) <= 100
          /\ \A i \in 1..(Len(historical_data) - 1) :
                historical_data[i].timestamp < historical_data[i + 1].timestamp)
    /\ [][now' = now + 1 =>
            \/ historical_data' = historical_data
            \/ /\ historical_data'[Len(historical_data')].timestamp = now'
               /\ LET kept == Len(historical_data') - 1
                  IN  /\ kept = IF Len(historical_data) < 100
                                THEN Len(historical_data) ELSE 99
                      /\ SubSeq(historical_data', 1, kept)
                            = SubSeq(historical_data, Len(historical_data) - kept + 1,
                                     Len(historical_data))]_vars

\* a full history from which the oldest points were evicted, with passes
\* that failed among those it holds
C25_Witness ==
    /\ Len(historical_data) = 100
    /\ historical_data[1].timestamp = 4
    /\ historical_data[100].timestamp = 104

(***************************************************************************)
(* Properties of the background monitoring of NMSWebInterface.             *)
(***************************************************************************)
\* the threads that are inside a cycle of _monitoring_loop
Polling == { t \in 1..MaxLoops : loops[t].pc = "iterating" }

\* C26: whatever the order of the start_monitoring and stop_monitoring
\* calls, at most one thread is polling: a start while monitoring is active
\* starts no thread, and a stopped loop does not go on beside the loop of a
\* later start.
C26_SingleLoop == Cardinality(Polling) <= 1

\* monitoring is active with one thread in its cycle and no second thread
C26_Witness ==
    /\ monitoring_active
    /\ loops[1].pc = "iterating" /\ loops[1].pos = 1
    /\ \A t \in 2..MaxLoops : loops[t].pc = "none"

\* C27: a cycle of the monitoring loop that is over has polled every device
\* that was in the registry when it began, also when a discovery stored new
\* addresses during the cycle.
C27_CyclePollsAll ==
    \A t \in 1..MaxLoops :
        loops[t].pc \in { "waiting", "exited" } =>
            SeqToSet(loops[t].keys) \subseteq loops[t].polled

\* a cycle over two devices, undisturbed, polled both
C27_Witness ==
    \E t \in 1..MaxLoops :
        /\ loops[t].pc = "waiting"
        /\ Len(loops[t].keys) = 2
        /\ loops[t].polled = SeqToSet(loops[t].keys)
        /\ loops[t].keys = DictKeySeq(discovered_devices)

\* C28: a step of the monitoring loop, get_device_stats included, leaves
\* discovered_devices and the stored topology as they are; they change only
\* in a step of a discovery request, of build_topology or of a load.
C28_PollingReadsOnly ==
    [][/\ (loops' # loops \/ last_stats' # last_stats) =>
              UNCHANGED << discovered_devices, topology >>
       /\ << discovered_devices, topology >>' # << discovered_devices, topology >> =>
              \/ pc' # pc
              \/ call'.op = "load_discovery_results"]_vars

\* the loop stored the statistics of both devices of a loaded registry, and
\* the registry was changed by nothing but the load
C28_Witness ==
    /\ call.op = "load_discovery_results"
    /\ Len(discovered_devices) = 2
    /\ DictKeys(last_stats) = DictKeys(discovered_devices)
    /\ \A i \in 1..2 : discovered_devices[i][2].discovered_at = 0

(***************************************************************************)
(* Properties of concurrent discovery requests.                            *)
(***************************************************************************)
\* C29: every Device a discovery request has found, and every Device it
\* returns, records in snmp_community the community the request supplied,
\* also when another request with another community ran meanwhile.
C29_OwnCommunity ==
    /\ pc = "phase2" =>
          \A i \in 1..Len(discovered) : discovered[i][2].snmp_community = supplied
    /\ pc = "returned" =>
          \A i \in 1..Len(outcome.value) :
              outcome.value[i][2].snmp_community = supplied

\* two Devices were returned with the community of their request although
\* the other request has changed the community of the engine since
C29_Witness ==
    /\ pc = "returned"
    /\ Len(outcome.value) = 2
    /\ \A i \in 1..2 : outcome.value[i][2].snmp_community = supplied
    /\ community # supplied

(***************************************************************************)
(* Properties of the keyword lists.                                        *)
(***************************************************************************)
\* C30: a keyword of the classifier, taken alone as the description, is
\* classified to the category in whose list it stands: no keyword is
\* shadowed by a keyword of a category tested earlier.
C30_NoKeywordShadowed ==
    call.op = "identify_device_type" =>
        \A i \in 1..Len(Categories) :
            call.system_desc \in KeywordsOf(i) => call.device_type = Categories[i]

\* "ovs" alone is a virtual_switch
C30_Witness ==
    /\ call.op = "identify_device_type"
    /\ call.system_desc = <<"o","v","s">>
    /\ call.device_type = "virtual_switch"

====
